---- MODULE Spec2Model ----
(***************************************************************************)
(* State machine of the useFormBuilder hook (src/src/hooks/useFormBuilder.ts)*)
(* of raphaeljorge/form-builder: the value store, the enhanced form state,  *)
(* validation, conditional display, array operations, reset and submission. *)
(*                                                                         *)
(* A React render captures formValues in the callbacks it creates; the      *)
(* variable closure is that captured snapshot, formValues and prevalidated  *)
(* are the store the functional updaters write.  Render makes the closure   *)
(* catch up with the store.                                                 *)
(***************************************************************************)
EXTENDS Integers, Sequences, FiniteSets, TLC

\* ------------------------------------------------------------------ bounds
\* longest list an array operation may build
MaxLen == 2
\* submit handler invocations in one run
MaxSubmits == 2
\* setTimeout(0) callbacks of setValue('password') pending at once
MaxTimers == 2
\* items of a list field's default value
MaxListLen == 4
\* characters of a mask, and of a raw text, run through the masking functions
MaxMaskLen == 3
MaxRawLen == 3

VARIABLES
    config,        \* name of the form configuration the hook was constructed with
    columns,       \* its columns: config.rows.flatMap(row => row.columns)
    options,       \* UseFormBuilderOptions given at construction
    formValues,    \* useState formValues: field id -> value
    prevalidated,  \* ids f whose key __prevalidated_<f> is set in formValues
    closure,       \* formValues (and its __prevalidated_ keys) as captured by the last render
    formState,     \* useState formState (EnhancedFormState)
    submissions,   \* one record per submit handler invocation, oldest first
    batching,      \* whether several handler calls may share one event-loop turn
    timers,        \* pending setTimeout(0) callbacks of setValue('password'), oldest
                   \* first: each the closure (cl) of the render whose setValue set
                   \* it, and the password that call wrote
    defaultValuesRef, \* useRef: the clone of initialValues taken at construction
                   \* (its values, and the ids f of its __prevalidated_<f> keys)
    composed,      \* what the last composeWith call returned, if one was made
    masking,       \* a text run through the masking functions on its own: the mask,
                   \* the raw text, and what applyMask, the raw extraction and a
                   \* second applyMask have made of it so far (stage)
    arrayField     \* the ArrayField component FormBuilder renders for an array column:
                   \* the column's bounds, the list the form holds for it
                   \* (form.getValue(column.id)) and the component's local items

vars == <<config, columns, options, formValues, prevalidated, closure, formState, submissions,
          batching, timers, defaultValuesRef, composed, masking, arrayField>>

\* ------------------------------------------------------------------ values
\* A JavaScript value: a string, an array of strings, or undefined.
Str(s) == [kind |-> "string", s |-> s, items |-> <<>>]
List(xs) == [kind |-> "list", s |-> "", items |-> xs]
Undefined == [kind |-> "undefined", s |-> "", items |-> <<>>]

\* value === undefined || value === null || value === ''
IsEmptyValue(value) == value.kind = "undefined" \/ (value.kind = "string" /\ value.s = "")

\* partial maps (objects): { ...m, [k]: v } and delete m[k]
EmptyMap == [k \in {} |-> TRUE]
Put(m, k, v) == [x \in (DOMAIN m) \cup {k} |-> IF x = k THEN v ELSE m[x]]
Delete(m, k) == [x \in (DOMAIN m) \ {k} |-> m[x]]

\* the characters of the strings written into text fields
Chars(s) ==
    CASE s = "" -> <<>>
      [] s = "abc12345" -> <<"a", "b", "c", "1", "2", "3", "4", "5">>
      [] s = "xyz99999" -> <<"x", "y", "z", "9", "9", "9", "9", "9">>
      [] s = "us" -> <<"u", "s">>
      [] s = "uk" -> <<"u", "k">>
      [] s = "ny" -> <<"n", "y">>
      [] s = "1234" -> <<"1", "2", "3", "4">>
      [] s = "123" -> <<"1", "2", "3">>
      [] s = "1234567890" -> <<"1", "2", "3", "4", "5", "6", "7", "8", "9", "0">>
      [] s = "1,234" -> <<"1", ",", "2", "3", "4">>

\* \d and [A-Za-z]
Digits == {"0", "1", "2", "3", "4", "5", "6", "7", "8", "9"}
Letters == {"a", "b", "c", "k", "n", "s", "u", "x", "y", "z"}

\* String(value || ''): a string is itself, undefined and '' give ''
StringOf(value) == IF value.kind = "string" THEN value.s ELSE ""

\* the string of the characters cs
RECURSIVE Join(_)
Join(cs) == IF Len(cs) = 0 THEN "" ELSE Head(cs) \o Join(Tail(cs))

\* ------------------------------------------------------------------ masking
IsDigit(c) == c \in Digits
IsPlaceholder(c) == c = "#"

\* a raw value that keeps the characters that are no digits
keepEveryCharacter(cs) == cs

\* value.replace(/\D/g, ''), on the characters of value
extractRaw(cs) == SelectSeq(cs, IsDigit)

\* a count that takes every character of the mask for a placeholder
maskLength(mask) == Len(mask)

\* mask.split('').filter(char => char === '#').length
digitCount(mask) == Len(SelectSeq(mask, IsPlaceholder))

\* the while loop of applyMask, from (maskIndex, valueIndex) with result so far
RECURSIVE applyMaskLoop(_, _, _, _, _)
applyMaskLoop(mask, rawValue, maskIndex, valueIndex, result) ==
    IF ~(maskIndex < Len(mask) /\ valueIndex < Len(rawValue)) THEN result
    ELSE IF mask[maskIndex + 1] = "#"
    THEN applyMaskLoop(mask, rawValue, maskIndex + 1, valueIndex + 1,
                       Append(result, rawValue[valueIndex + 1]))
    ELSE applyMaskLoop(mask, rawValue, maskIndex + 1, valueIndex,
                       Append(result, mask[maskIndex + 1]))

\* applyMask(value, mask) on the characters of a string value
applyMask(value, mask) ==
    IF value = <<>> \/ mask = <<>> THEN <<>>
    ELSE applyMaskLoop(mask, extractRaw(value), 0, 0, <<>>)

\* ------------------------------------------------------------------ configuration
\* A field definition that declares nothing but its id, type and required:
\* message "", minItems 0, maxItems 0, custom "none", transform "none", mask <<>>,
\* pattern "none", template "none" and dependsOn <<>> stand for an absent
\* property; deps is validation.deps, pattern names validation.pattern, mask is
\* the mask's characters and template is the type of an array field's template.
Field(id, type, required) ==
    [id |-> id, type |-> type, required |-> required,
     placeholder |-> TRUE, options |-> <<>>,
     message |-> "", minItems |-> 0, maxItems |-> 0,
     hasCondition |-> FALSE, dependsOn |-> <<>>, deps |-> <<>>,
     custom |-> "none", transform |-> "none",
     mask |-> <<>>, pattern |-> "none", template |-> "none"]

countryField ==
    [Field("country", "select", TRUE) EXCEPT !.options = <<"us", "uk">>]
\* the select of the documentation: a required country with the custom predicate
\* (value) => value === 'us' || 'Currently only accepting US applications'
usOnlyCountryField ==
    [Field("country", "select", TRUE) EXCEPT !.options = <<"us", "uk">>, !.custom = "usOnly"]
stateField ==
    [Field("state", "text", TRUE) EXCEPT !.hasCondition = TRUE, !.dependsOn = <<"country">>]
skillsField ==
    [Field("skills", "chip", TRUE) EXCEPT
        !.options = <<"js", "ts">>, !.minItems = 1, !.maxItems = 1]
passwordField ==
    [Field("password", "text", TRUE) EXCEPT
        !.placeholder = FALSE, !.pattern = "password",
        !.message = "Password must be at least 8 characters with letters and numbers"]
confirmPasswordField ==
    [Field("confirmPassword", "text", TRUE) EXCEPT
        !.placeholder = FALSE, !.deps = <<"password">>, !.custom = "matchesPassword"]
phoneField ==
    [Field("phone", "text", TRUE) EXCEPT
        !.mask = <<"(", "#", "#", "#", ")", " ", "#", "#", "#", "-", "#", "#", "#", "#">>,
        !.pattern = "phone", !.message = "Please enter a valid phone number"]
formattedNumberField ==
    [Field("formattedNumber", "text", FALSE) EXCEPT
        !.transform = "number", !.pattern = "number",
        !.message = "Please enter a valid number"]

\* a second column that declares the id state again
stateAgainField == Field("state", "text", FALSE)
\* an array field whose template is a select field
notesField ==
    [Field("notes", "array", FALSE) EXCEPT !.template = "select"]

\* list fields by the bounds they declare: none, minItems only, maxItems only
tagsField == Field("tags", "chip", TRUE)
emailsField ==
    [Field("emails", "array", TRUE) EXCEPT !.minItems = 1, !.template = "text"]
addressesField ==
    [Field("addresses", "array", FALSE) EXCEPT
        !.maxItems = 1, !.template = "text", !.pattern = "number",
        !.custom = "matchesPassword"]

FieldDefs ==
    [country |-> countryField, state |-> stateField, skills |-> skillsField,
     notes |-> notesField, tags |-> tagsField, emails |-> emailsField,
     addresses |-> addressesField,
     password |-> passwordField, confirmPassword |-> confirmPasswordField,
     formattedNumber |-> formattedNumberField, phone |-> phoneField]

\* config.rows.flatMap(row => row.columns), per configuration
Configs ==
    [address |-> <<countryField, stateField>>,
     profile |-> <<countryField, stateField, skillsField>>,
     account |-> <<passwordField, confirmPasswordField>>,
     pricing |-> <<formattedNumberField>>,
     contact |-> <<phoneField>>,
     skillset |-> <<skillsField>>,
     duplicated |-> <<stateField, stateAgainField>>,
     mistemplated |-> <<notesField>>,
     lists |-> <<tagsField, emailsField, addressesField>>,
     applications |-> <<usOnlyCountryField>>]

Columns == columns
FieldIds == {Columns[i].id : i \in 1..Len(Columns)}

\* config.rows.flatMap(...).find(field => field.id === name): the first column
\* that declares name; the columns hold name
FieldConfig(name) ==
    Columns[CHOOSE i \in 1..Len(Columns) :
               Columns[i].id = name /\ \A j \in 1..(i - 1) : Columns[j].id # name]

\* the loop of validateSingleField assigns every column that declares fieldId
\* and so keeps the last one
LastFieldConfig(fieldId) ==
    Columns[CHOOSE i \in 1..Len(Columns) :
               Columns[i].id = fieldId /\ \A j \in (i + 1)..Len(Columns) : Columns[j].id # fieldId]

\* condition.shouldDisplay(values) of the fields that declare a condition
ConditionShouldDisplay(id, values) ==
    CASE id = "state" -> values["country"] = Str("us")
      [] OTHER -> TRUE

\* The values a caller writes into a field.
StringInputs(id) ==
    CASE id = "country" -> {"", "us", "uk"}
      [] id = "state" -> {"", "ny"}
      [] id = "password" -> {"", "abc12345", "xyz99999"}
      [] id = "confirmPassword" -> {"", "abc12345", "xyz99999"}
      [] id = "formattedNumber" -> {"", "1234", "1,234"}
      [] id = "phone" -> {"", "123", "1234567890"}
      [] OTHER -> {""}
Items == {"js"}
ListsUpTo(n) == UNION {[1..k -> Items] : k \in 0..n}
ValueInputs(id) ==
    IF FieldDefs[id].type \in {"array", "chip"}
    THEN {List(xs) : xs \in ListsUpTo(MaxLen)}
    ELSE {Str(s) : s \in StringInputs(id)}

Modes == {"undefined", "onSubmit", "onChange", "onBlur", "onTouched", "all", "none"}

\* ------------------------------------------------------------------ construction
DefaultKeys == {"phone", "ssn", "country", "state", "password", "confirmPassword"}
DEFAULT_VALUES == [k \in DefaultKeys |-> Str("")]

\* ids of the array and chip columns
ArrayFieldIds == {Columns[i].id : i \in {j \in 1..Len(Columns) : Columns[j].type \in {"array", "chip"}}}

\* an array field starts as [''], a chip field as []
initializeArrayFields ==
    [id \in ArrayFieldIds |-> IF FieldConfig(id).type = "array" THEN List(<<"">>) ELSE List(<<>>)]

\* { ...a, ...b }
Merge(a, b) == [k \in (DOMAIN a) \cup (DOMAIN b) |-> IF k \in DOMAIN b THEN b[k] ELSE a[k]]

\* transform.input / transform.output of a field's declared transform
\* numberTransformation: input strips the commas, output is
\* Number(value).toLocaleString()
NotComma(c) == c # ","
RemoveCommas(s) == Join(SelectSeq(Chars(s), NotComma))

\* Number(s).toLocaleString() of the string s (en-US): the digits in groups of
\* three, NaN for what is not a number
ToLocaleString(s) ==
    LET cs == Chars(s)
        n == Len(cs)
        grouped == [i \in 1..n |->
                       IF i > 1 /\ (n - i + 1) % 3 = 0 THEN "," \o cs[i] ELSE cs[i]]
    IN  IF \A i \in 1..n : cs[i] \in Digits THEN Join(grouped) ELSE "NaN"

TransformInput(t, value) ==
    CASE t = "number" ->
            IF IsEmptyValue(value) THEN Str("") ELSE Str(RemoveCommas(StringOf(value)))
      [] OTHER -> value
TransformOutput(t, value) ==
    CASE t = "number" ->
            IF IsEmptyValue(value) THEN Str("") ELSE Str(ToLocaleString(StringOf(value)))
      [] OTHER -> value

\* initialValues (useMemo): the values, before the __prevalidated_ keys are added
initialFieldValues ==
    LET merged == Merge(Merge(DEFAULT_VALUES, initializeArrayFields), options.defaultValues)
        transformed ==
            [k \in DOMAIN merged |->
                IF /\ options.enableFieldTransformation
                   /\ k \in FieldIds
                   /\ FieldConfig(k).transform # "none"
                THEN TransformInput(FieldConfig(k).transform, merged[k])
                ELSE merged[k]]
        selectIds == {id \in FieldIds : FieldConfig(id).type = "select"}
        firstOption(id) ==
            Len(FieldConfig(id).options) > 0 /\ ~FieldConfig(id).placeholder
        \* the loop that gives a select field its default or its first option
        selected(k) ==
            IF k \in selectIds /\ k \in DOMAIN options.defaultValues
            THEN options.defaultValues[k]
            ELSE IF k \in selectIds /\ firstOption(k)
            THEN Str(FieldConfig(k).options[1])
            ELSE transformed[k]
    IN  \* the pre-validation loop gives a select field still empty its first option
        [k \in (DOMAIN transformed) \cup {id \in selectIds : firstOption(id)} |->
            IF k \in selectIds /\ IsEmptyValue(selected(k)) /\ firstOption(k)
            THEN Str(FieldConfig(k).options[1])
            ELSE selected(k)]

\* the select fields whose key __prevalidated_<id> initialValues sets
initialPrevalidated ==
    {id \in FieldIds :
        /\ FieldConfig(id).type = "select"
        /\ id \in DOMAIN initialFieldValues
        /\ ~IsEmptyValue(initialFieldValues[id])}

\* deepClone(initialValues)
initialValuesClone == [formValues |-> initialFieldValues, prevalidated |-> initialPrevalidated]

\* fieldConditions after the mount effect: registered only under
\* enableAutomaticDependencyRevalidation
fieldConditions ==
    IF options.enableAutomaticDependencyRevalidation
    THEN {id \in FieldIds : FieldConfig(id).hasCondition /\ Len(FieldConfig(id).dependsOn) > 0}
    ELSE {}

\* fieldTransformations after the mount effect
fieldTransformations ==
    IF options.enableAutomaticDependencyRevalidation /\ options.enableFieldTransformation
    THEN {id \in FieldIds : FieldConfig(id).transform # "none"}
    ELSE {}

\* the columns from the i-th on that declare dep in validation.deps or in
\* condition.dependsOn, appended to acc in column order
RECURSIVE Dependents(_, _, _)
Dependents(i, dep, acc) ==
    IF i > Len(Columns) THEN acc
    ELSE LET f == Columns[i]
             inDeps == \E j \in 1..Len(f.deps) : f.deps[j] = dep
             inCond == f.hasCondition /\ \E j \in 1..Len(f.dependsOn) : f.dependsOn[j] = dep
         IN  Dependents(i + 1, dep, IF inDeps \/ inCond THEN Append(acc, f.id) ELSE acc)

\* getFieldDependencies(fieldId): the fields that declared fieldId in validation.deps
\* or condition.dependsOn, in column order; empty unless the mount effect recorded them
getFieldDependencies(fieldId) ==
    IF options.enableAutomaticDependencyRevalidation THEN Dependents(1, fieldId, <<>>) ELSE <<>>

\* shouldDisplayField of a render that sees the registered conditions `conditions`
\* and the values `values`
shouldDisplayField(fieldId, conditions, values) ==
    IF fieldId \notin conditions THEN TRUE ELSE ConditionShouldDisplay(fieldId, values)

\* transformField of a render that sees the registered transformations
transformField(fieldId, value, direction, transformations) ==
    IF fieldId \notin transformations THEN value
    ELSE IF direction = "input" THEN TransformInput(FieldConfig(fieldId).transform, value)
    ELSE TransformOutput(FieldConfig(fieldId).transform, value)

\* maskedValues[id] (useMemo over formValues and config): the characters of the
\* masked text of a masked text field, the list of a list field, the value's
\* string otherwise
maskedValues(values, id) ==
    LET field == FieldConfig(id)
    IN  IF field.type = "text" /\ field.mask # <<>>
        THEN applyMask(Chars(StringOf(values[id])), field.mask)
        ELSE IF field.type \in {"array", "chip"}
        THEN (IF values[id].kind = "list" THEN values[id].items ELSE <<>>)
        ELSE StringOf(values[id])

\* watch(name) and getValues(name) of the render that holds closure cl
watch(cl, name) ==
    LET value == IF name \in DOMAIN cl.formValues THEN cl.formValues[name] ELSE Undefined
    IN  IF options.enableFieldTransformation
        THEN transformField(name, value, "output", fieldTransformations)
        ELSE value

getValues(cl, name) ==
    LET value == IF name \in DOMAIN cl.formValues THEN cl.formValues[name] ELSE Undefined
    IN  IF options.enableFieldTransformation
        THEN transformField(name, value, "output", fieldTransformations)
        ELSE value

\* ------------------------------------------------------------------ validation
Valid == [isValid |-> TRUE, error |-> ""]
Invalid(message) == [isValid |-> FALSE, error |-> message]

\* a || b on strings
OrElse(a, b) == IF a # "" THEN a ELSE b

\* a count that takes the blank items too
CountAll(xs) == Len(xs)

\* array.filter(item => item !== '' && item !== null && item !== undefined).length
RECURSIVE NonEmptyCount(_)
NonEmptyCount(xs) ==
    IF Len(xs) = 0 THEN 0
    ELSE (IF Head(xs) # "" THEN 1 ELSE 0) + NonEmptyCount(Tail(xs))

\* new RegExp(pattern).test(String(value))
PatternTest(pattern, s) ==
    LET cs == Chars(s)
    IN  CASE pattern = "password" ->
                \* ^(?=.*[A-Za-z])(?=.*\d)[A-Za-z\d]{8,}$
                /\ \E i \in 1..Len(cs) : cs[i] \in Letters
                /\ \E i \in 1..Len(cs) : cs[i] \in Digits
                /\ \A i \in 1..Len(cs) : cs[i] \in Letters \cup Digits
                /\ Len(cs) >= 8
          [] pattern = "number" ->
                \* ^[0-9,]+$
                /\ \A i \in 1..Len(cs) : cs[i] \in Digits \cup {","}
                /\ Len(cs) >= 1
          [] pattern = "phone" ->
                \* ^\(\d{3}\) \d{3}-\d{4}$
                LET shape == <<"(", "#", "#", "#", ")", " ", "#", "#", "#", "-",
                               "#", "#", "#", "#">>
                IN  /\ Len(cs) = Len(shape)
                    /\ \A i \in 1..Len(cs) :
                          IF shape[i] = "#" THEN cs[i] \in Digits ELSE cs[i] = shape[i]
          [] OTHER -> TRUE

\* validation.custom(String(value || ''), mergedValues): TRUE, or the message returned
CustomValidator(custom, value, mergedValues) ==
    CASE custom = "matchesPassword" ->
            \* value === formValues.password || 'Passwords must match'
            IF Str(StringOf(value)) = mergedValues["password"]
            THEN [ok |-> TRUE, message |-> ""]
            ELSE [ok |-> FALSE, message |-> "Passwords must match"]
      [] custom = "usOnly" ->
            \* value === 'us' || 'Currently only accepting US applications'
            IF StringOf(value) = "us"
            THEN [ok |-> TRUE, message |-> ""]
            ELSE [ok |-> FALSE, message |-> "Currently only accepting US applications"]
      [] OTHER -> [ok |-> TRUE, message |-> ""]

\* a validation that asks the custom predicate before the password rule
validateSingleFieldCustomFirst(fieldId, value, values, updatedValues) ==
    IF fieldId \notin FieldIds THEN Valid
    ELSE
    LET fieldConfig == LastFieldConfig(fieldId)
        mergedValues == Merge(values, updatedValues)
        isEmptyValue == IsEmptyValue(value)
        hasDefaultValue == fieldId \in DOMAIN values /\ ~IsEmptyValue(values[fieldId])
        array == IF value.kind = "list" THEN value.items ELSE <<>>
        count == NonEmptyCount(array)
        custom == CustomValidator(fieldConfig.custom, value, mergedValues)
        \* String(value || '').replace(/\D/g, '')
        rawValue == extractRaw(Chars(StringOf(value)))
    IN  IF fieldConfig.required /\ fieldConfig.type = "select"
        THEN IF isEmptyValue /\ ~hasDefaultValue
             THEN Invalid(OrElse(fieldConfig.message, "Please select an option"))
             ELSE Valid
        ELSE IF fieldConfig.required /\ isEmptyValue
        THEN Invalid(OrElse(fieldConfig.message, "This field is required"))
        ELSE IF fieldConfig.type \in {"array", "chip"}
        THEN IF fieldConfig.minItems # 0 /\ count < fieldConfig.minItems
             THEN Invalid("Minimum " \o ToString(fieldConfig.minItems) \o " items required")
             ELSE IF fieldConfig.maxItems # 0 /\ count > fieldConfig.maxItems
             THEN Invalid("Maximum " \o ToString(fieldConfig.maxItems) \o " items allowed")
             ELSE Valid
        ELSE IF /\ fieldConfig.type = "text"
                /\ fieldConfig.mask # <<>>
                /\ Len(rawValue) > 0
                /\ Len(rawValue) # digitCount(fieldConfig.mask)
        THEN Invalid(OrElse(fieldConfig.message,
                            "Must be " \o ToString(digitCount(fieldConfig.mask)) \o " digits"))
        ELSE IF /\ fieldConfig.pattern # "none"
                /\ fieldConfig.mask = <<>>
                /\ ~IsEmptyValue(value)
                /\ ~PatternTest(fieldConfig.pattern, StringOf(value))
        THEN Invalid(OrElse(fieldConfig.message, "Invalid format"))
        ELSE IF fieldConfig.custom # "none" /\ ~custom.ok
        THEN Invalid(custom.message)
        ELSE IF fieldId = "confirmPassword" /\ mergedValues["password"] # value
        THEN Invalid("Passwords do not match")
        ELSE Valid

\* validateSingleField(fieldId, value, config, formValues, updatedValues)
validateSingleField(fieldId, value, values, updatedValues) ==
    IF fieldId \notin FieldIds THEN Valid
    ELSE
    LET fieldConfig == LastFieldConfig(fieldId)
        mergedValues == Merge(values, updatedValues)
        isEmptyValue == IsEmptyValue(value)
        hasDefaultValue == fieldId \in DOMAIN values /\ ~IsEmptyValue(values[fieldId])
        array == IF value.kind = "list" THEN value.items ELSE <<>>
        count == NonEmptyCount(array)
        custom == CustomValidator(fieldConfig.custom, value, mergedValues)
        \* String(value || '').replace(/\D/g, '')
        rawValue == extractRaw(Chars(StringOf(value)))
    IN  IF fieldConfig.required /\ fieldConfig.type = "select"
        THEN IF isEmptyValue /\ ~hasDefaultValue
             THEN Invalid(OrElse(fieldConfig.message, "Please select an option"))
             ELSE Valid
        ELSE IF fieldConfig.required /\ isEmptyValue
        THEN Invalid(OrElse(fieldConfig.message, "This field is required"))
        ELSE IF fieldConfig.type \in {"array", "chip"}
        THEN IF fieldConfig.minItems # 0 /\ count < fieldConfig.minItems
             THEN Invalid("Minimum " \o ToString(fieldConfig.minItems) \o " items required")
             ELSE IF fieldConfig.maxItems # 0 /\ count > fieldConfig.maxItems
             THEN Invalid("Maximum " \o ToString(fieldConfig.maxItems) \o " items allowed")
             ELSE Valid
        ELSE IF /\ fieldConfig.type = "text"
                /\ fieldConfig.mask # <<>>
                /\ Len(rawValue) > 0
                /\ Len(rawValue) # digitCount(fieldConfig.mask)
        THEN Invalid(OrElse(fieldConfig.message,
                            "Must be " \o ToString(digitCount(fieldConfig.mask)) \o " digits"))
        ELSE IF /\ fieldConfig.pattern # "none"
                /\ fieldConfig.mask = <<>>
                /\ ~IsEmptyValue(value)
                /\ ~PatternTest(fieldConfig.pattern, StringOf(value))
        THEN Invalid(OrElse(fieldConfig.message, "Invalid format"))
        ELSE IF fieldId = "confirmPassword" /\ mergedValues["password"] # value
        THEN Invalid("Passwords do not match")
        ELSE IF fieldConfig.custom # "none" /\ ~custom.ok
        THEN Invalid(custom.message)
        ELSE Valid

\* ------------------------------------------------------------------ form state updaters
FieldError(message) == [type |-> "validation", message |-> message]

\* delete newErrors[name]; isValid: Object.keys(newErrors).length === 0
ClearError(prev, name) ==
    LET newErrors == Delete(prev.errors, name)
    IN  [prev EXCEPT !.errors = newErrors, !.isValid = (DOMAIN newErrors = {})]

\* the updater validateField ends with: the error of `result` set or deleted
ApplyResult(prev, name, result) ==
    LET newErrors == IF ~result.isValid /\ result.error # ""
                     THEN Put(prev.errors, name, FieldError(result.error))
                     ELSE Delete(prev.errors, name)
    IN  [prev EXCEPT !.errors = newErrors, !.isValid = (DOMAIN newErrors = {})]

\* what the validateField callback the closure cl holds sees of the registered
\* conditions and transformations: the callback is rebuilt only when formValues
\* changes, so until then it keeps the shouldDisplayField and transformField of
\* the first render, made before the mount effect registered anything
ConditionsSeenBy(cl) == IF cl.stale THEN {} ELSE fieldConditions
TransformationsSeenBy(cl) == IF cl.stale THEN {} ELSE fieldTransformations

\* the updater validateField begins with: isValidating and validatingFields[name] true
StartValidating(prev, name) ==
    [prev EXCEPT !.isValidating = TRUE, !.validatingFields = Put(@, name, TRUE)]

\* a closing updater that leaves the flags as the opening one set them
StopValidatingNothing(prev, name) == prev

\* what every closing updater of validateField does besides the errors:
\* isValidating and validatingFields[name] false
StopValidating(prev, name) ==
    [prev EXCEPT !.isValidating = FALSE, !.validatingFields = Put(@, name, FALSE)]

\* validateField(name, value) run by the callback of closure cl on form state prev:
\* the opening updater, then the closing updater of the branch taken
validateField(prev, cl, name, value) ==
    LET hasConfig == name \in FieldIds
        started == StartValidating(prev, name)
        valueToValidate == IF value.kind # "undefined" THEN value
                           ELSE IF name \in DOMAIN cl.formValues THEN cl.formValues[name]
                           ELSE Undefined
        transformedValue ==
            IF options.enableFieldTransformation
            THEN transformField(name, valueToValidate, "input", TransformationsSeenBy(cl))
            ELSE valueToValidate
    IN  IF /\ hasConfig
           /\ FieldConfig(name).hasCondition
           /\ ~shouldDisplayField(name, ConditionsSeenBy(cl), cl.formValues)
        THEN StopValidating(ClearError(started, name), name)
        ELSE IF name \in cl.prevalidated
        THEN StopValidating(ClearError(started, name), name)
        ELSE IF hasConfig /\ FieldConfig(name).type = "select" /\ ~IsEmptyValue(valueToValidate)
        THEN StopValidating(ClearError(started, name), name)
        ELSE StopValidating(
                 ApplyResult(started, name,
                     validateSingleField(name, transformedValue, cl.formValues, EmptyMap)),
                 name)

\* what validateField(name, value) resolves to: true on the branches that skip
\* the check, result.isValid otherwise
validateFieldReturns(cl, name, value) ==
    LET hasConfig == name \in FieldIds
        valueToValidate == IF value.kind # "undefined" THEN value
                           ELSE IF name \in DOMAIN cl.formValues THEN cl.formValues[name]
                           ELSE Undefined
        transformedValue ==
            IF options.enableFieldTransformation
            THEN transformField(name, valueToValidate, "input", TransformationsSeenBy(cl))
            ELSE valueToValidate
    IN  IF /\ hasConfig
           /\ FieldConfig(name).hasCondition
           /\ ~shouldDisplayField(name, ConditionsSeenBy(cl), cl.formValues)
        THEN Valid
        ELSE IF name \in cl.prevalidated
        THEN Valid
        ELSE IF hasConfig /\ FieldConfig(name).type = "select" /\ ~IsEmptyValue(valueToValidate)
        THEN Valid
        ELSE validateSingleField(name, transformedValue, cl.formValues, EmptyMap)

\* ------------------------------------------------------------------ initial state
InitialFormState ==
    [isDirty |-> FALSE, dirtyFields |-> EmptyMap, isSubmitted |-> FALSE,
     isSubmitSuccessful |-> FALSE, isSubmitting |-> FALSE, submitCount |-> 0,
     touchedFields |-> EmptyMap, errors |-> EmptyMap, isValid |-> TRUE,
     isValidating |-> FALSE, validatingFields |-> EmptyMap]

\* the whole-form validators a caller may pass as options.formValidation
FormValidators == {"none", "accept", "rejectUk", "emptyObject"}

\* options.formValidation(values): null, or the field-keyed messages returned
FormValidation(validator, values) ==
    CASE validator = "rejectUk" /\ values["country"] = Str("uk") ->
            [isNull |-> FALSE, messages |-> [country |-> "Country is not supported"]]
      [] validator = "emptyObject" -> [isNull |-> FALSE, messages |-> EmptyMap]
      [] OTHER -> [isNull |-> TRUE, messages |-> EmptyMap]

OptionSets(modes, debounces, validators) ==
    [mode : modes, submitDebounce : debounces,
     enableAutomaticDependencyRevalidation : BOOLEAN,
     enableFieldTransformation : {FALSE},
     formValidation : validators, defaultValues : {EmptyMap}]

\* the state once the hook has mounted: the first render, the mount effect
\* (conditions, dependencies and transformations registered) and its re-render
\* composeWith has not been called
NoComposition == [made |-> FALSE]

InitHook(configs, optionSet, batch) ==
    /\ batching = batch
    /\ config \in configs
    /\ columns = Configs[config]
    /\ options \in optionSet
    /\ formValues = initialFieldValues
    /\ prevalidated = initialPrevalidated
    /\ defaultValuesRef = initialValuesClone
    /\ composed = NoComposition
    /\ closure = [formValues |-> initialFieldValues, prevalidated |-> initialPrevalidated,
                  stale |-> TRUE, outdated |-> FALSE]
    /\ formState = InitialFormState
    /\ submissions = <<>>
    /\ timers = <<>>

\* no text is being masked on its own
NoMasking ==
    [mask |-> <<>>, raw |-> <<>>, display |-> <<>>, extracted |-> <<>>, again |-> <<>>,
     stage |-> "none"]

\* no array column is rendered
NoArrayField == [rendered |-> FALSE, minItems |-> 0, maxItems |-> 0, value |-> <<>>, items |-> <<>>]

InitWith(configs, optionSet, batch) ==
    /\ InitHook(configs, optionSet, batch)
    /\ masking = NoMasking
    /\ arrayField = NoArrayField

\* ------------------------------------------------------------------ render
\* A state update re-renders the hook: the callbacks are rebuilt over the
\* current formValues.
Render ==
    /\ closure.outdated
    /\ closure' = [formValues |-> formValues, prevalidated |-> prevalidated,
                   stale |-> FALSE, outdated |-> FALSE]
    /\ UNCHANGED <<config, columns, arrayField, options, defaultValuesRef, composed, batching, masking, timers, formValues, prevalidated, formState, submissions>>

\* timers fire, and events arrive, on a rendered hook
Rendered == ~closure.outdated

\* a handler call runs on a rendered hook, or in the turn of an earlier call
HandlerMayRun == batching \/ Rendered

\* setFormValues was called: the render that follows the event rebuilds the
\* callbacks over the new formValues; while handler calls share a turn, that
\* render is still to come
ValuesWritten ==
    closure' = IF batching
               THEN [closure EXCEPT !.outdated = TRUE]
               ELSE [formValues |-> formValues', prevalidated |-> prevalidated',
                     stale |-> FALSE, outdated |-> FALSE]

\* ------------------------------------------------------------------ setValue
\* a dirty updater that raises the flag without recording the field
MarkDirtyFlagOnly(prev, name) ==
    [prev EXCEPT !.isDirty = TRUE]

MarkDirty(prev, name) ==
    [prev EXCEPT !.isDirty = TRUE, !.dirtyFields = Put(prev.dirtyFields, name, TRUE)]

\* a touched updater that drops what the other fields had
MarkTouchedOnly(prev, name) ==
    [prev EXCEPT !.touchedFields = Put(EmptyMap, name, TRUE)]

MarkTouched(prev, name) ==
    [prev EXCEPT !.touchedFields = Put(prev.touchedFields, name, TRUE)]

\* validateField over the fields of sequence names, in order, each with its closure value
RECURSIVE ValidateAll(_, _, _)
ValidateAll(prev, cl, names) ==
    IF Len(names) = 0 THEN prev
    ELSE ValidateAll(validateField(prev, cl, Head(names), cl.formValues[Head(names)]),
                     cl, Tail(names))

\* SetValueOptions: the options parameter of setValue hides the hook's options,
\* so mode and the enable* toggles are read from the call's own options
SetValueOptions(modes) ==
    [shouldDirty : BOOLEAN, shouldTouch : BOOLEAN, shouldValidate : BOOLEAN,
     mode : modes, enableFieldTransformation : BOOLEAN,
     enableAutomaticDependencyRevalidation : BOOLEAN]

\* the form state after setValue(name, value, o)
SetValueState(prev, cl, name, value, o) ==
    LET transformedValue ==
            IF o.enableFieldTransformation
            THEN transformField(name, value, "input", fieldTransformations)
            ELSE value
        isSelectField == name \in FieldIds /\ FieldConfig(name).type = "select"
        hasValue == ~IsEmptyValue(transformedValue)
        s1 == IF isSelectField /\ hasValue THEN ClearError(prev, name) ELSE prev
        s2 == IF o.shouldDirty THEN MarkDirty(s1, name) ELSE s1
        s3 == IF o.shouldTouch THEN MarkTouched(s2, name) ELSE s2
        validationMode == o.mode
        shouldValidateBasedOnMode ==
            o.shouldValidate \/ validationMode = "onChange" \/ validationMode = "all"
        s4 == IF shouldValidateBasedOnMode /\ validationMode # "none"
              THEN LET v == validateField(s3, cl, name, transformedValue)
                   IN  IF o.enableAutomaticDependencyRevalidation
                       THEN ValidateAll(v, cl, getFieldDependencies(name))
                       ELSE v
              ELSE s3
    IN  s4

\* the setFormValues updater of setValue(name, value, o), applied to values
SetValueValues(values, name, value, o) ==
    Put(values, name,
        IF o.enableFieldTransformation
        THEN transformField(name, value, "input", fieldTransformations)
        ELSE value)

SetValue(name, value, o) ==
    LET transformedValue ==
            IF o.enableFieldTransformation
            THEN transformField(name, value, "input", fieldTransformations)
            ELSE value
        isSelectField == name \in FieldIds /\ FieldConfig(name).type = "select"
        \* name === 'password' && formValues.confirmPassword
        schedulesTimer ==
            /\ name = "password"
            /\ "confirmPassword" \in DOMAIN closure.formValues
            /\ ~IsEmptyValue(closure.formValues["confirmPassword"])
    IN  /\ HandlerMayRun
        /\ formValues' = SetValueValues(formValues, name, value, o)
        /\ prevalidated' = IF isSelectField /\ ~IsEmptyValue(transformedValue)
                           THEN prevalidated \cup {name}
                           ELSE prevalidated
        /\ formState' = SetValueState(formState, closure, name, value, o)
        /\ schedulesTimer => Len(timers) < MaxTimers
        /\ timers' = IF schedulesTimer
                     THEN Append(timers, [cl |-> closure, password |-> transformedValue])
                     ELSE timers
        /\ UNCHANGED <<config, columns, arrayField, options, defaultValuesRef, composed, batching, masking, submissions>>
        /\ ValuesWritten

\* the setTimeout(0) callback set by setValue('password') runs: the validateField
\* of the render that set it validates the confirmPassword that render held
ConfirmPasswordTimerFires ==
    /\ Rendered
    /\ timers # <<>>
    /\ LET cl == Head(timers).cl
       IN  formState' = validateField(formState, cl, "confirmPassword",
                                      cl.formValues["confirmPassword"])
    /\ timers' = Tail(timers)
    /\ UNCHANGED <<config, columns, arrayField, options, defaultValuesRef, composed, batching, masking, formValues, prevalidated, closure, submissions>>

\* ------------------------------------------------------------------ validateField
ValidateField(name, value) ==
    /\ HandlerMayRun
    /\ formState' = validateField(formState, closure, name, value)
    /\ UNCHANGED <<config, columns, arrayField, options, defaultValuesRef, composed, batching, masking, timers, formValues, prevalidated, closure, submissions>>

\* ------------------------------------------------------------------ array operations
\* currentValues = formValues[field.id] || [], read from the closure
CurrentValues(id) == closure.formValues[id].items

\* the tail every array operation shares: write the list, mark dirty, validate it
WriteList(id, newValues) ==
    /\ HandlerMayRun
    /\ formValues' = Put(formValues, id, List(newValues))
    /\ formState' = validateField(MarkDirty(formState, id), closure, id, List(newValues))
    /\ UNCHANGED <<config, columns, arrayField, options, defaultValuesRef, composed, batching, masking, timers, prevalidated, submissions>>
    /\ ValuesWritten

\* xs.splice(index, 0, value), index in 0..Len(xs)
InsertAt(xs, index, value) ==
    SubSeq(xs, 1, index) \o <<value>> \o SubSeq(xs, index + 1, Len(xs))

\* a filter that keeps every element
KeepAll(xs, index) == xs

\* xs.filter((_, i) => i !== index): an index past the end removes nothing
RemoveAt(xs, index) ==
    IF index \in 0..(Len(xs) - 1)
    THEN SubSeq(xs, 1, index) \o SubSeq(xs, index + 2, Len(xs))
    ELSE xs

\* [xs[a], xs[b]] = [xs[b], xs[a]], both indices in range
SwapAt(xs, a, b) ==
    [i \in 1..Len(xs) |-> IF i = a + 1 THEN xs[b + 1] ELSE IF i = b + 1 THEN xs[a + 1] ELSE xs[i]]

\* a move that exchanges the two elements
MoveBySwap(xs, from, to) == SwapAt(xs, from, to)

\* const [movedItem] = xs.splice(from, 1); xs.splice(to, 0, movedItem)
MoveAt(xs, from, to) == InsertAt(RemoveAt(xs, from), to, xs[from + 1])

ArrayAppend(id, value) ==
    /\ Len(CurrentValues(id)) < MaxLen
    /\ WriteList(id, Append(CurrentValues(id), value))

ArrayPrepend(id, value) ==
    /\ Len(CurrentValues(id)) < MaxLen
    /\ WriteList(id, <<value>> \o CurrentValues(id))

ArrayInsert(id, index, value) ==
    /\ Len(CurrentValues(id)) < MaxLen
    /\ index \in 0..Len(CurrentValues(id))
    /\ WriteList(id, InsertAt(CurrentValues(id), index, value))

ArrayRemove(id, index) ==
    WriteList(id, RemoveAt(CurrentValues(id), index))

ArraySwap(id, indexA, indexB) ==
    /\ indexA \in 0..(Len(CurrentValues(id)) - 1)
    /\ indexB \in 0..(Len(CurrentValues(id)) - 1)
    /\ WriteList(id, SwapAt(CurrentValues(id), indexA, indexB))

ArrayMove(id, from, to) ==
    /\ from \in 0..(Len(CurrentValues(id)) - 1)
    /\ to \in 0..(Len(CurrentValues(id)) - 1)
    /\ WriteList(id, MoveAt(CurrentValues(id), from, to))

\* ------------------------------------------------------------------ reset
FieldResetOptions == [keepError : BOOLEAN, keepDirty : BOOLEAN, keepValue : BOOLEAN,
                      keepTouched : BOOLEAN]

\* a field reset that clears the three maps whole
ResetFieldStateAll(prev, name, o) ==
    [prev EXCEPT !.errors = IF o.keepError THEN prev.errors ELSE EmptyMap,
                 !.dirtyFields = IF o.keepDirty THEN prev.dirtyFields ELSE EmptyMap,
                 !.touchedFields = IF o.keepTouched THEN prev.touchedFields ELSE EmptyMap,
                 !.isValid = (o.keepError /\ prev.isValid)]

\* the values updater of resetField
ResetFieldValues(prev, name, o) ==
    Put(prev, name, IF o.keepValue THEN prev[name] ELSE defaultValuesRef.formValues[name])

ResetFieldState(prev, name, o) ==
    LET newErrors == IF o.keepError THEN prev.errors ELSE Delete(prev.errors, name)
        newDirtyFields == IF o.keepDirty THEN prev.dirtyFields ELSE Delete(prev.dirtyFields, name)
        newTouchedFields ==
            IF o.keepTouched THEN prev.touchedFields ELSE Delete(prev.touchedFields, name)
    IN  [prev EXCEPT !.errors = newErrors, !.dirtyFields = newDirtyFields,
                     !.touchedFields = newTouchedFields,
                     !.isValid = (DOMAIN newErrors = {})]

ResetField(name, o) ==
    /\ HandlerMayRun
    /\ formValues' = ResetFieldValues(formValues, name, o)
    /\ formState' = ResetFieldState(formState, name, o)
    /\ UNCHANGED <<config, columns, arrayField, options, defaultValuesRef, composed, batching, masking, timers, prevalidated, submissions>>
    /\ ValuesWritten

FormResetOptions == [keepErrors : BOOLEAN, keepDirty : BOOLEAN, keepValues : BOOLEAN,
                     keepIsSubmitted : BOOLEAN, keepTouched : BOOLEAN,
                     keepIsValid : BOOLEAN, keepSubmitCount : BOOLEAN]

ResetFormState(prev, o) ==
    [prev EXCEPT
        !.isDirty = IF o.keepDirty THEN prev.isDirty ELSE FALSE,
        !.dirtyFields = IF o.keepDirty THEN prev.dirtyFields ELSE EmptyMap,
        !.isSubmitted = IF o.keepIsSubmitted THEN prev.isSubmitted ELSE FALSE,
        !.isSubmitSuccessful = IF o.keepIsSubmitted THEN prev.isSubmitSuccessful ELSE FALSE,
        !.submitCount = IF o.keepSubmitCount THEN prev.submitCount ELSE 0,
        !.touchedFields = IF o.keepTouched THEN prev.touchedFields ELSE EmptyMap,
        !.errors = IF o.keepErrors THEN prev.errors ELSE EmptyMap,
        !.isValid = IF o.keepIsValid THEN prev.isValid ELSE TRUE]

\* new values that are whatever the form holds now
resetValuesKept(o) == [formValues |-> formValues, prevalidated |-> prevalidated]

\* newValues of resetForm: the closure's formValues (keepValues) or a clone of the defaults,
\* with the __prevalidated_ keys either holds
resetValues(o) ==
    IF o.keepValues
    THEN [formValues |-> closure.formValues, prevalidated |-> closure.prevalidated]
    ELSE defaultValuesRef

ResetForm(o) ==
    /\ HandlerMayRun
    /\ formValues' = resetValues(o).formValues
    /\ prevalidated' = resetValues(o).prevalidated
    /\ formState' = ResetFormState(formState, o)
    /\ UNCHANGED <<config, columns, arrayField, options, defaultValuesRef, composed, batching, masking, timers, submissions>>
    /\ ValuesWritten

\* ------------------------------------------------------------------ composition
\* the maskedValues of the render that holds closure cl
maskedOf(cl) == [id \in FieldIds |-> maskedValues(cl.formValues, id)]

\* a composition in which this form's entries win over the other form's
composeWithOwnFirst(cl, prev, otherForm) ==
    [made |-> TRUE,
     raw |-> Merge(otherForm.raw, cl.formValues),
     prevalidated |-> cl.prevalidated \cup otherForm.prevalidated,
     masked |-> Merge(otherForm.masked, maskedOf(cl)),
     formState |-> [prev EXCEPT
         !.errors = Merge(otherForm.formState.errors, prev.errors),
         !.dirtyFields = Merge(otherForm.formState.dirtyFields, prev.dirtyFields),
         !.touchedFields = Merge(otherForm.formState.touchedFields, prev.touchedFields),
         !.isValid = prev.isValid /\ otherForm.formState.isValid]]

\* composeWith(otherForm) of the render that holds closure cl and form state
\* prev: state.raw (with its __prevalidated_ keys), state.masked and formState
\* of the returned instance
composeWith(cl, prev, otherForm) ==
    [made |-> TRUE,
     raw |-> Merge(cl.formValues, otherForm.raw),
     prevalidated |-> cl.prevalidated \cup otherForm.prevalidated,
     masked |-> Merge(maskedOf(cl), otherForm.masked),
     formState |-> [prev EXCEPT
         !.errors = Merge(prev.errors, otherForm.formState.errors),
         !.dirtyFields = Merge(prev.dirtyFields, otherForm.formState.dirtyFields),
         !.touchedFields = Merge(prev.touchedFields, otherForm.formState.touchedFields),
         !.isValid = prev.isValid /\ otherForm.formState.isValid]]

\* composeWith is rebuilt with every render, so on a rendered hook it reads the
\* current formValues and formState; it calls no setter
ComposeWith(otherForm) ==
    /\ Rendered
    /\ composed' = composeWith(closure, formState, otherForm)
    /\ UNCHANGED <<config, columns, arrayField, options, defaultValuesRef, batching, masking, timers, formValues,
                   prevalidated, closure, formState, submissions>>

\* ------------------------------------------------------------------ submission
\* the errors the validation pass of the submit handler records for the columns
\* from the i-th on, added to errors
RECURSIVE SubmitErrors(_, _, _)
SubmitErrors(i, values, errors) ==
    IF i > Len(Columns) THEN errors
    ELSE LET field == Columns[i]
             hidden == field.hasCondition
                       /\ ~shouldDisplayField(field.id, fieldConditions, values)
             fieldValue ==
                 IF options.enableFieldTransformation
                 THEN transformField(field.id, values[field.id], "input", fieldTransformations)
                 ELSE values[field.id]
             shouldSkipValidation == field.type = "select" /\ ~IsEmptyValue(fieldValue)
             result == validateSingleField(field.id, fieldValue, values, EmptyMap)
         IN  SubmitErrors(i + 1, values,
                 IF ~hidden /\ ~shouldSkipValidation /\ ~result.isValid /\ result.error # ""
                 THEN Put(errors, field.id, FieldError(result.error))
                 ELSE errors)

\* options.mode === undefined || options.mode === 'onSubmit' || options.mode === 'all'
shouldValidateOnSubmit == options.mode \in {"undefined", "onSubmit", "all"}

\* a first updater that forgets the counter
MarkSubmittingKeepsCount(prev) ==
    [prev EXCEPT !.isSubmitting = TRUE, !.isSubmitted = TRUE]

\* the handler's first updater
MarkSubmitting(prev) ==
    [prev EXCEPT !.isSubmitting = TRUE, !.isSubmitted = TRUE,
                 !.submitCount = prev.submitCount + 1]

\* the updater after the validation pass
ApplySubmitErrors(prev, errors) ==
    [prev EXCEPT !.errors = errors, !.isValid = (DOMAIN errors = {}),
                 !.isSubmitting = IF DOMAIN errors = {} THEN prev.isSubmitting ELSE FALSE]

\* the updater after a whole-form validator that returned an object
ApplyFormLevelErrors(prev, errors, messages) ==
    [prev EXCEPT !.errors = Merge(errors, [k \in DOMAIN messages |-> FieldError(messages[k])]),
                 !.isValid = FALSE, !.isSubmitting = FALSE]

FormLevelResult(values) ==
    IF options.formValidation = "none" THEN [isNull |-> TRUE, messages |-> EmptyMap]
    ELSE FormValidation(options.formValidation, values)

\* the form state once the synchronous body of the submit handler has run
HandleSubmitState(prev, values) ==
    LET marked == MarkSubmitting(prev)
        errors == SubmitErrors(1, values, EmptyMap)
        validated == ApplySubmitErrors(marked, errors)
        formLevel == FormLevelResult(values)
    IN  IF ~shouldValidateOnSubmit THEN marked
        ELSE IF ~formLevel.isNull THEN ApplyFormLevelErrors(validated, errors, formLevel.messages)
        ELSE validated

\* whether the handler goes on to schedule the callback
SubmitAccepted(values) ==
    \/ ~shouldValidateOnSubmit
    \/ /\ DOMAIN SubmitErrors(1, values, EmptyMap) = {}
       /\ FormLevelResult(values).isNull

\* submissionValues: Object.keys(formValues).reduce(...) with each value
\* output-transformed when enableFieldTransformation is on
submissionValues(values) ==
    [k \in DOMAIN values |->
        IF options.enableFieldTransformation
        THEN transformField(k, values[k], "output", fieldTransformations)
        ELSE values[k]]

\* what a submission keeps of submissionValues: the fields that declare a transform
payloadOf(values) ==
    LET sv == submissionValues(values)
    IN  [k \in {id \in DOMAIN sv : id \in FieldIds /\ FieldConfig(id).transform # "none"} |->
            sv[k]]

\* A submit handler invocation.  payload: the submissionValues handed to the
\* callback, as far as payloadOf keeps them.  phase: rejected | delay (the 100 ms timer is
\* pending) | awaiting (the callback's promise is pending) | catchDelay (the 300 ms
\* timer of the catch block is pending) | debounce (the debounce timer is pending)
\* | done.  handler: the handleSubmit(onSubmit) result that was invoked, which owns
\* the debounce timer (0 when no debounce is configured).  promise: how the
\* handler's own promise settled: the async handler awaits nothing and its timers
\* catch what the callback throws, so the promise is resolved when it returns.
\* invoked, outcome: whether the caller's callback ran and how it ended.
\* reported: the submit-result updater that was applied.
NewSubmission(phase, handler) ==
    [phase |-> phase, handler |-> IF options.submitDebounce > 0 THEN handler ELSE 0,
     promise |-> "resolved",
     payload |-> IF phase = "rejected" THEN EmptyMap ELSE payloadOf(closure.formValues),
     invoked |-> FALSE, outcome |-> "none", reported |-> "none"]

\* the event handler returned by handleSubmit(onSubmit) is invoked; sameHandler: it is
\* the function the previous invocation used, not one made by a later handleSubmit call
HandleSubmit(sameHandler) ==
    /\ HandlerMayRun
    /\ Len(submissions) < MaxSubmits
    /\ sameHandler => Len(submissions) > 0
    /\ LET handler == IF sameHandler THEN submissions[Len(submissions)].handler
                      ELSE Len(submissions) + 1
           phase == IF SubmitAccepted(closure.formValues) THEN "delay" ELSE "rejected"
       IN  submissions' = Append(submissions, NewSubmission(phase, handler))
    /\ formState' = HandleSubmitState(formState, closure.formValues)
    /\ UNCHANGED <<config, columns, arrayField, options, defaultValuesRef, composed, batching, masking, timers, formValues, prevalidated, closure>>

SubmitSucceeded(prev) ==
    [prev EXCEPT !.isSubmitting = FALSE, !.isSubmitted = TRUE, !.isSubmitSuccessful = TRUE]

\* a failure updater that leaves the form submitting
SubmitFailedStillSubmitting(prev) ==
    [prev EXCEPT !.isSubmitSuccessful = FALSE]

SubmitFailed(prev) ==
    [prev EXCEPT !.isSubmitting = FALSE, !.isSubmitSuccessful = FALSE]

\* timers of equal delay fire in the order they were set
FirstInPhase(i, phase) ==
    /\ i \in DOMAIN submissions
    /\ submissions[i].phase = phase
    /\ \A j \in 1..(i - 1) : submissions[j].phase # phase

\* the 100 ms timer fires and awaits onSubmit(submissionValues); the callback
\* returns, throws, or returns a promise that is still pending
TimerFires(i, result) ==
    /\ Rendered
    /\ options.submitDebounce = 0
    /\ FirstInPhase(i, "delay")
    /\ CASE result = "returns" ->
              /\ submissions' = [submissions EXCEPT ![i] =
                     [@ EXCEPT !.phase = "done", !.invoked = TRUE, !.outcome = "ok",
                               !.reported = "success"]]
              /\ formState' = SubmitSucceeded(formState)
         [] result = "throws" ->
              /\ submissions' = [submissions EXCEPT ![i] =
                     [@ EXCEPT !.phase = "catchDelay", !.invoked = TRUE, !.outcome = "threw"]]
              /\ formState' = formState
         [] OTHER ->
              /\ submissions' = [submissions EXCEPT ![i] =
                     [@ EXCEPT !.phase = "awaiting", !.invoked = TRUE]]
              /\ formState' = formState
    /\ UNCHANGED <<config, columns, arrayField, options, defaultValuesRef, composed, batching, masking, timers, formValues, prevalidated, closure>>

\* the promise the callback returned settles
CallbackSettles(i, fulfilled) ==
    /\ Rendered
    /\ i \in DOMAIN submissions
    /\ submissions[i].phase = "awaiting"
    /\ IF fulfilled
       THEN /\ submissions' = [submissions EXCEPT ![i] =
                   [@ EXCEPT !.phase = "done", !.outcome = "ok", !.reported = "success"]]
            /\ formState' = SubmitSucceeded(formState)
       ELSE /\ submissions' = [submissions EXCEPT ![i] =
                   [@ EXCEPT !.phase = "catchDelay", !.outcome = "threw"]]
            /\ formState' = formState
    /\ UNCHANGED <<config, columns, arrayField, options, defaultValuesRef, composed, batching, masking, timers, formValues, prevalidated, closure>>

\* the 300 ms timer of the catch block fires
CatchTimerFires(i) ==
    /\ Rendered
    /\ i \in DOMAIN submissions
    /\ submissions[i].phase = "catchDelay"
    /\ submissions' = [submissions EXCEPT ![i] =
           [@ EXCEPT !.phase = "done", !.reported = "failure"]]
    /\ formState' = SubmitFailed(formState)
    /\ UNCHANGED <<config, columns, arrayField, options, defaultValuesRef, composed, batching, masking, timers, formValues, prevalidated, closure>>

\* the 100 ms timer fires and awaits debounce(onSubmit, submitDebounce)(values):
\* the debounced function clears the pending timer of its own earlier call, sets
\* a new one and returns undefined
DebouncedTimerFires(i) ==
    /\ Rendered
    /\ options.submitDebounce > 0
    /\ FirstInPhase(i, "delay")
    /\ submissions' =
           [j \in DOMAIN submissions |->
               IF j = i
               THEN [submissions[j] EXCEPT !.phase = "debounce", !.reported = "success"]
               ELSE IF /\ submissions[j].phase = "debounce"
                       /\ submissions[j].handler = submissions[i].handler
               THEN [submissions[j] EXCEPT !.phase = "done"]
               ELSE submissions[j]]
    /\ formState' = SubmitSucceeded(formState)
    /\ UNCHANGED <<config, columns, arrayField, options, defaultValuesRef, composed, batching, masking, timers, formValues, prevalidated, closure>>

\* the debounce timer fires and calls onSubmit(values); nothing awaits the call
DebounceFires(i, threw) ==
    /\ Rendered
    /\ i \in DOMAIN submissions
    /\ submissions[i].phase = "debounce"
    /\ submissions' = [submissions EXCEPT ![i] =
           [@ EXCEPT !.phase = "done", !.invoked = TRUE,
                     !.outcome = IF threw THEN "threw" ELSE "ok"]]
    /\ UNCHANGED <<config, columns, arrayField, options, defaultValuesRef, composed, batching, masking, timers, formValues, prevalidated, closure, formState>>

\* ------------------------------------------------------------------ specifications
\* The form being edited: the store operations on the profile form.  Each
\* operation is an event of its own, run on a rendered hook.
Init == InitWith({"profile"}, OptionSets({"undefined"}, {0}, {"none"}), FALSE)

\* the options a setValue call is given
EditSetValue ==
    [shouldDirty : BOOLEAN, shouldTouch : {FALSE}, shouldValidate : BOOLEAN,
     mode : {"undefined", "none"}, enableFieldTransformation : {FALSE},
     enableAutomaticDependencyRevalidation : BOOLEAN]

EditFieldResets == [keepError : BOOLEAN, keepDirty : BOOLEAN, keepValue : BOOLEAN,
                    keepTouched : {FALSE}]

EditFormResets ==
    [keepErrors : BOOLEAN, keepDirty : BOOLEAN, keepValues : BOOLEAN,
     keepIsSubmitted : {FALSE}, keepTouched : {FALSE},
     keepIsValid : BOOLEAN, keepSubmitCount : {FALSE}]

Next ==
    \/ \E name \in FieldIds, o \in EditSetValue :
          \E value \in ValueInputs(name) : SetValue(name, value, o)
    \/ \E name \in FieldIds : \E value \in {Undefined} \cup ValueInputs(name) :
          ValidateField(name, value)
    \/ \E id \in ArrayFieldIds, value \in Items : ArrayAppend(id, value)
    \/ \E id \in ArrayFieldIds, value \in Items : ArrayPrepend(id, value)
    \/ \E id \in ArrayFieldIds, index \in 0..MaxLen, value \in Items :
          ArrayInsert(id, index, value)
    \/ \E id \in ArrayFieldIds, index \in 0..MaxLen : ArrayRemove(id, index)
    \/ \E id \in ArrayFieldIds, a \in 0..MaxLen, b \in 0..MaxLen : ArraySwap(id, a, b)
    \/ \E id \in ArrayFieldIds, from \in 0..MaxLen, to \in 0..MaxLen :
          ArrayMove(id, from, to)
    \/ \E name \in FieldIds, o \in EditFieldResets : ResetField(name, o)
    \/ \E o \in EditFormResets : ResetForm(o)

Spec == Init /\ [][Next]_vars

\* Submission: the address form under every validation mode and whole-form
\* validator; values are written without touching the dirty and touched maps.
SubmitInit == InitWith({"address"}, OptionSets(Modes, {0}, FormValidators), FALSE)

PlainSetValue ==
    [shouldDirty : {FALSE}, shouldTouch : {FALSE}, shouldValidate : {FALSE},
     mode : {"undefined"}, enableFieldTransformation : {FALSE},
     enableAutomaticDependencyRevalidation : {FALSE}]

SubmitResets ==
    [keepErrors : {FALSE}, keepDirty : {FALSE}, keepValues : {FALSE},
     keepIsSubmitted : {FALSE}, keepTouched : {FALSE},
     keepIsValid : {FALSE}, keepSubmitCount : BOOLEAN]

SubmitNext ==
    \/ \E name \in FieldIds, o \in PlainSetValue :
          \E value \in ValueInputs(name) : SetValue(name, value, o)
    \/ \E o \in SubmitResets : ResetForm(o)
    \/ HandleSubmit(FALSE)
    \/ \E i \in 1..MaxSubmits, result \in {"returns", "throws", "promise"} :
          TimerFires(i, result)
    \/ \E i \in 1..MaxSubmits, fulfilled \in BOOLEAN : CallbackSettles(i, fulfilled)
    \/ \E i \in 1..MaxSubmits : CatchTimerFires(i)

SubmitSpec == SubmitInit /\ [][SubmitNext]_vars

\* The asynchronous tail of a submission, with and without submitDebounce,
\* under a mode that validates on submit and one that does not.
AsyncInit == InitWith({"address"}, OptionSets({"undefined", "none"}, {0, 300}, {"none"}), FALSE)

AsyncEvents ==
    \/ \E name \in FieldIds, o \in PlainSetValue :
          \E value \in ValueInputs(name) : SetValue(name, value, o)
    \/ \E sameHandler \in BOOLEAN : HandleSubmit(sameHandler)

\* what the event loop and the caller's callback do on their own
AsyncSteps ==
    \/ \E i \in 1..MaxSubmits, result \in {"returns", "throws", "promise"} :
          TimerFires(i, result)
    \/ \E i \in 1..MaxSubmits, fulfilled \in BOOLEAN : CallbackSettles(i, fulfilled)
    \/ \E i \in 1..MaxSubmits : CatchTimerFires(i)
    \/ \E i \in 1..MaxSubmits : DebouncedTimerFires(i)
    \/ \E i \in 1..MaxSubmits, threw \in BOOLEAN : DebounceFires(i, threw)

AsyncNext == AsyncEvents \/ AsyncSteps

AsyncSpec == AsyncInit /\ [][AsyncNext]_vars

\* pending timers fire and the caller's callback settles
FairAsyncSpec == AsyncSpec /\ WF_vars(AsyncSteps)

\* Submissions counted: the same, with resetForm called at any point.
CountNext ==
    \/ AsyncNext
    \/ \E o \in SubmitResets : ResetForm(o)

CountSpec == AsyncInit /\ [][CountNext]_vars

\* setValue under the construction-time modes: the address form, every
\* combination of the options the SetValueOptions parameter documents, and
\* resetField to clear what a call marked.
SetValueInit ==
    InitWith({"address"}, OptionSets({"undefined", "onSubmit", "onChange", "all"}, {0}, {"none"}),
             FALSE)

DocumentedSetValue ==
    [shouldDirty : BOOLEAN, shouldTouch : BOOLEAN, shouldValidate : BOOLEAN,
     mode : {"undefined", "onChange", "none"}, enableFieldTransformation : {FALSE},
     enableAutomaticDependencyRevalidation : {FALSE}]

NoKeep == [keepError |-> FALSE, keepDirty |-> FALSE, keepValue |-> FALSE, keepTouched |-> FALSE]

SetValueNext ==
    \/ \E name \in FieldIds, o \in DocumentedSetValue :
          \E value \in ValueInputs(name) : SetValue(name, value, o)
    \/ \E name \in FieldIds : ResetField(name, NoKeep)

SetValueSpec == SetValueInit /\ [][SetValueNext]_vars

\* The account form: password and confirmPassword written through setValue,
\* and the setTimeout(0) re-validation of confirmPassword.
PasswordInit == InitWith({"account"}, OptionSets({"undefined"}, {0}, {"none"}), FALSE)

PasswordSetValue ==
    [shouldDirty : {TRUE}, shouldTouch : {FALSE}, shouldValidate : BOOLEAN,
     mode : {"undefined"}, enableFieldTransformation : {FALSE},
     enableAutomaticDependencyRevalidation : BOOLEAN]

PasswordNext ==
    \/ \E name \in FieldIds, o \in PasswordSetValue :
          \E value \in ValueInputs(name) : SetValue(name, value, o)
    \/ ConfirmPasswordTimerFires

PasswordSpec == PasswordInit /\ [][PasswordNext]_vars

\* The pricing form: formattedNumber declares numberTransformation; the two
\* feature toggles and a default value are chosen at construction.
TransformOptions ==
    [mode : {"undefined"}, submitDebounce : {0},
     enableAutomaticDependencyRevalidation : BOOLEAN,
     enableFieldTransformation : BOOLEAN,
     formValidation : {"none"},
     defaultValues : {[formattedNumber |-> Str(s)] : s \in {"", "1,234"}}]

TransformInit == InitWith({"pricing"}, TransformOptions, FALSE)

TransformSetValue ==
    [shouldDirty : {TRUE}, shouldTouch : {FALSE}, shouldValidate : BOOLEAN,
     mode : {"undefined"}, enableFieldTransformation : BOOLEAN,
     enableAutomaticDependencyRevalidation : {FALSE}]

TransformNext ==
    \/ \E name \in FieldIds, o \in TransformSetValue :
          \E value \in ValueInputs(name) : SetValue(name, value, o)
    \/ HandleSubmit(FALSE)
    \/ \E i \in 1..MaxSubmits : TimerFires(i, "returns")

TransformSpec == TransformInit /\ [][TransformNext]_vars

\* The contact form: the masked phone field, written, validated and reset.
PhoneInit ==
    InitWith({"contact"}, OptionSets({"undefined", "onChange"}, {0}, {"none"}), FALSE)

PhoneSetValue ==
    [shouldDirty : BOOLEAN, shouldTouch : BOOLEAN, shouldValidate : BOOLEAN,
     mode : {"undefined"}, enableFieldTransformation : {FALSE},
     enableAutomaticDependencyRevalidation : {FALSE}]

PhoneNext ==
    \/ \E name \in FieldIds, o \in PhoneSetValue :
          \E value \in ValueInputs(name) : SetValue(name, value, o)
    \/ \E name \in FieldIds : ValidateField(name, Undefined)
    \/ \E name \in FieldIds : ResetField(name, NoKeep)

PhoneSpec == PhoneInit /\ [][PhoneNext]_vars

\* The skillset form: one list field that starts from a default list of
\* distinct items; append, remove and move are called with or without a
\* re-render between two calls.
ListItems == {"a", "b", "c", "d"}
DistinctLists(n) ==
    {xs \in UNION {[1..k -> ListItems] : k \in 0..n} :
        \A i, j \in 1..Len(xs) : xs[i] = xs[j] => i = j}

ListOptions ==
    [mode : {"undefined"}, submitDebounce : {0},
     enableAutomaticDependencyRevalidation : {FALSE},
     enableFieldTransformation : {FALSE},
     formValidation : {"none"},
     defaultValues : {[skills |-> List(xs)] : xs \in DistinctLists(MaxListLen)}]

ListInit == InitWith({"skillset"}, ListOptions, TRUE)

ListNext ==
    \/ \E id \in ArrayFieldIds, value \in Items : ArrayAppend(id, value)
    \/ \E id \in ArrayFieldIds, index \in 0..MaxListLen : ArrayRemove(id, index)
    \/ \E id \in ArrayFieldIds, from \in 0..(MaxListLen - 1), to \in 0..(MaxListLen - 1) :
          ArrayMove(id, from, to)
    \/ Render

ListSpec == ListInit /\ [][ListNext]_vars

\* The skillset form again, with all six list operations, each called on a
\* rendered hook.
ArrayInit == InitWith({"skillset"}, ListOptions, FALSE)

ArrayNext ==
    \/ \E id \in ArrayFieldIds, value \in Items : ArrayAppend(id, value)
    \/ \E id \in ArrayFieldIds, value \in Items : ArrayPrepend(id, value)
    \/ \E id \in ArrayFieldIds, index \in 0..MaxListLen, value \in Items :
          ArrayInsert(id, index, value)
    \/ \E id \in ArrayFieldIds, index \in 0..MaxListLen : ArrayRemove(id, index)
    \/ \E id \in ArrayFieldIds, indexA \in 0..(MaxListLen - 1), indexB \in 0..(MaxListLen - 1) :
          ArraySwap(id, indexA, indexB)
    \/ \E id \in ArrayFieldIds, from \in 0..(MaxListLen - 1), to \in 0..(MaxListLen - 1) :
          ArrayMove(id, from, to)

ArraySpec == ArrayInit /\ [][ArrayNext]_vars

\* Resetting the form: the profile form, written by setValue and the list
\* operations and reset as a whole; several calls may share a turn, so a call
\* can run before the render that follows the one before it.
ResetInit == InitWith({"profile"}, OptionSets({"undefined"}, {0}, {"none"}), TRUE)

ResetSetValue ==
    [shouldDirty : {TRUE}, shouldTouch : {FALSE}, shouldValidate : {FALSE},
     mode : {"undefined"}, enableFieldTransformation : {FALSE},
     enableAutomaticDependencyRevalidation : {FALSE}]

ResetFormOptions ==
    [keepErrors : {FALSE}, keepDirty : BOOLEAN, keepValues : BOOLEAN,
     keepIsSubmitted : {FALSE}, keepTouched : {FALSE},
     keepIsValid : {FALSE}, keepSubmitCount : {FALSE}]

ResetNext ==
    \/ \E name \in FieldIds, o \in ResetSetValue :
          \E value \in ValueInputs(name) : SetValue(name, value, o)
    \/ \E id \in ArrayFieldIds, value \in Items : ArrayAppend(id, value)
    \/ \E id \in ArrayFieldIds, index \in 0..MaxLen : ArrayRemove(id, index)
    \/ \E o \in ResetFormOptions : ResetForm(o)
    \/ Render

ResetSpec == ResetInit /\ [][ResetNext]_vars

\* Resetting a field: the profile form, each call on a rendered hook; setValue
\* marks the field dirty and touched and validates it.
FieldResetInit == InitWith({"profile"}, OptionSets({"undefined"}, {0}, {"none"}), FALSE)

FieldResetSetValue ==
    [shouldDirty : {TRUE}, shouldTouch : {TRUE}, shouldValidate : {TRUE},
     mode : {"undefined"}, enableFieldTransformation : {FALSE},
     enableAutomaticDependencyRevalidation : {FALSE}]

FieldResetNext ==
    \/ \E name \in FieldIds, o \in FieldResetSetValue :
          \E value \in ValueInputs(name) : SetValue(name, value, o)
    \/ \E id \in ArrayFieldIds, value \in Items : ArrayAppend(id, value)
    \/ \E name \in FieldIds, o \in FieldResetOptions : ResetField(name, o)

FieldResetSpec == FieldResetInit /\ [][FieldResetNext]_vars

\* Composition: the address form, each call on a rendered hook, composed with
\* the returned object of another form: one just constructed, an address form
\* that was edited, or an account form.
otherFresh ==
    [raw |-> DEFAULT_VALUES, prevalidated |-> {},
     masked |-> [k \in {"country", "state"} |-> ""],
     formState |-> InitialFormState]

otherEdited ==
    [raw |-> Merge(DEFAULT_VALUES, [country |-> Str("uk")]),
     prevalidated |-> {"country"},
     masked |-> [k \in {"country", "state"} |-> IF k = "country" THEN "uk" ELSE ""],
     formState |-> [InitialFormState EXCEPT
         !.isDirty = TRUE,
         !.dirtyFields = [k \in {"country"} |-> TRUE],
         !.touchedFields = [k \in {"country"} |-> TRUE],
         !.errors = [k \in {"state"} |-> FieldError("This field is required")],
         !.isValid = FALSE]]

otherAccount ==
    [raw |-> Merge(DEFAULT_VALUES, [password |-> Str("abc12345")]),
     prevalidated |-> {},
     masked |-> [k \in {"password", "confirmPassword"} |->
                    IF k = "password" THEN "abc12345" ELSE ""],
     formState |-> [InitialFormState EXCEPT
         !.isDirty = TRUE,
         !.dirtyFields = [k \in {"password"} |-> TRUE],
         !.touchedFields = [k \in {"password"} |-> TRUE],
         !.errors = [k \in {"confirmPassword"} |-> FieldError("Passwords do not match")],
         !.isValid = FALSE]]

OtherForms == {otherFresh, otherEdited, otherAccount}

ComposeInit == InitWith({"address"}, OptionSets({"undefined"}, {0}, {"none"}), FALSE)

ComposeNext ==
    \/ \E name \in FieldIds, o \in FieldResetSetValue :
          \E value \in ValueInputs(name) : SetValue(name, value, o)
    \/ \E otherForm \in OtherForms : ComposeWith(otherForm)

ComposeSpec == ComposeInit /\ [][ComposeNext]_vars

\* Construction from a configuration that is not well formed: one that declares
\* the id state twice, and one whose array field has a select template.  The
\* hook is constructed as from any configuration and its operations are called.
BuildInit == InitWith({"duplicated", "mistemplated"}, OptionSets(Modes, {0}, {"none"}), FALSE)

BuildNext ==
    \/ \E name \in FieldIds, o \in EditSetValue :
          \E value \in ValueInputs(name) : SetValue(name, value, o)
    \/ \E name \in FieldIds : \E value \in {Undefined} \cup ValueInputs(name) :
          ValidateField(name, value)
    \/ \E id \in ArrayFieldIds, value \in Items : ArrayAppend(id, value)
    \/ \E id \in ArrayFieldIds, index \in 0..MaxLen : ArrayRemove(id, index)
    \/ \E name \in FieldIds, o \in EditFieldResets : ResetField(name, o)

BuildSpec == BuildInit /\ [][BuildNext]_vars

\* Validation of text fields: the account, contact and pricing forms.  The
\* password is a default value chosen at construction; the other fields are
\* written and validated through setValue and validateField.
ValidateOptions ==
    [mode : {"undefined"}, submitDebounce : {0},
     enableAutomaticDependencyRevalidation : {FALSE},
     enableFieldTransformation : {FALSE},
     formValidation : {"none"},
     defaultValues : {EmptyMap} \cup {[k \in {"password"} |-> Str(s)] :
                                          s \in {"abc12345", "xyz99999"}}]

ValidateInit ==
    InitWith({"account", "contact", "pricing", "applications"}, ValidateOptions, FALSE)

ValidateNext ==
    \/ \E name \in FieldIds \ {"password"}, o \in PhoneSetValue :
          \E value \in ValueInputs(name) : SetValue(name, value, o)
    \/ \E name \in FieldIds : \E value \in {Undefined} \cup ValueInputs(name) :
          ValidateField(name, value)

ValidateSpec == ValidateInit /\ [][ValidateNext]_vars

\* Validation of list fields: the lists form and the skillset form, their
\* lists extended by items and blank items, shortened and validated.
BoundsInit == InitWith({"lists", "skillset"}, OptionSets({"undefined"}, {0}, {"none"}), FALSE)

ListEntries == Items \cup {""}

BoundsNext ==
    \/ \E id \in ArrayFieldIds, value \in ListEntries : ArrayAppend(id, value)
    \/ \E id \in ArrayFieldIds, index \in 0..MaxLen : ArrayRemove(id, index)
    \/ \E name \in FieldIds : ValidateField(name, Undefined)

BoundsSpec == BoundsInit /\ [][BoundsNext]_vars

\* ------------------------------------------------------------------ the ArrayField component
\* FormBuilder renders an array column through ArrayField, over the form of the
\* react-hook-form hook: getValues and setValue read and write the form's
\* values at once, so a write is seen by the next read of the same handler.

\* the longest list of local items Add is clicked on
MaxItems == 3

\* arrayFields[fieldId].add(value) on a form that holds currentValues
add(currentValues, value) == Append(currentValues, value)

\* arrayFields[fieldId].remove(index) on a form that holds currentValues
remove(currentValues, index) == RemoveAt(currentValues, index)

\* addItem: the Add button. The local items plus an empty item are written
\* through onChange, and then arrayOperations.add('') appends to what the form
\* holds by then.
addItem ==
    LET newItems == Append(arrayField.items, "")
        \* onChange(newItems): form.setValue(column.id, newItems)
        changed == newItems
    IN  /\ arrayField.rendered
        /\ ~(arrayField.maxItems # 0 /\ Len(arrayField.items) >= arrayField.maxItems)
        /\ Len(arrayField.items) < MaxItems
        /\ arrayField' = [arrayField EXCEPT !.items = newItems, !.value = add(changed, "")]
        /\ UNCHANGED <<config, columns, options, defaultValuesRef, composed, batching, masking,
                       timers, formValues, prevalidated, closure, formState, submissions>>

\* removeItem(index): the Remove button of the item at index. The local items
\* without that item are written through onChange, and then
\* arrayOperations.remove(index) filters what the form holds by then.
removeItem(index) ==
    LET newItems == RemoveAt(arrayField.items, index)
        \* onChange(newItems): form.setValue(column.id, newItems)
        changed == newItems
    IN  /\ arrayField.rendered
        /\ index \in 0..(Len(arrayField.items) - 1)
        /\ ~(arrayField.minItems # 0 /\ Len(arrayField.items) <= arrayField.minItems)
        /\ arrayField' = [arrayField EXCEPT !.items = newItems, !.value = remove(changed, index)]
        /\ UNCHANGED <<config, columns, options, defaultValuesRef, composed, batching, masking,
                       timers, formValues, prevalidated, closure, formState, submissions>>

\* the render after the form changed: useEffect(() => setItems(value), [value])
ItemsFollowValue ==
    /\ arrayField.rendered
    /\ arrayField.items # arrayField.value
    /\ arrayField' = [arrayField EXCEPT !.items = arrayField.value]
    /\ UNCHANGED <<config, columns, options, defaultValuesRef, composed, batching, masking,
                   timers, formValues, prevalidated, closure, formState, submissions>>

\* the array columns of the example configuration by their bounds (emails 1..3,
\* addresses 1..2) and one that declares none
ArrayFieldBounds == {<<0, 0>>, <<1, 3>>, <<1, 2>>}

\* The component on a form whose list starts within the column's bounds.
ComponentInit ==
    /\ InitHook({"lists"}, OptionSets({"undefined"}, {0}, {"none"}), FALSE)
    /\ masking = NoMasking
    /\ \E bounds \in ArrayFieldBounds, xs \in ListsUpTo(MaxItems) :
          /\ Len(xs) >= bounds[1]
          /\ bounds[2] # 0 => Len(xs) <= bounds[2]
          /\ arrayField = [rendered |-> TRUE, minItems |-> bounds[1], maxItems |-> bounds[2],
                           value |-> xs, items |-> xs]

ComponentNext ==
    \/ addItem
    \/ \E index \in 0..MaxItems : removeItem(index)
    \/ ItemsFollowValue

ComponentSpec == ComponentInit /\ [][ComponentNext]_vars

\* ------------------------------------------------------------------ masking a text
\* the mask and raw texts tried: every text over the characters below, up to
\* the bounds
MaskChars == {"#", "-", "1"}
RawChars == {"1", "2", "-"}
TextsUpTo(chars, n) == UNION {[1..k -> chars] : k \in 0..n}

\* applyMask(raw, mask) gives the display text
MaskApplied ==
    /\ masking.stage = "raw"
    /\ masking' = [masking EXCEPT !.display = applyMask(masking.raw, masking.mask),
                                  !.stage = "masked"]
    /\ UNCHANGED <<config, columns, arrayField, options, defaultValuesRef, composed, batching, timers, formValues, prevalidated, closure,
                   formState, submissions>>

\* the raw text is extracted from the display text
RawExtracted ==
    /\ masking.stage = "masked"
    /\ masking' = [masking EXCEPT !.extracted = extractRaw(masking.display),
                                  !.stage = "extracted"]
    /\ UNCHANGED <<config, columns, arrayField, options, defaultValuesRef, composed, batching, timers, formValues, prevalidated, closure,
                   formState, submissions>>

\* applyMask on the extracted text
MaskReapplied ==
    /\ masking.stage = "extracted"
    /\ masking' = [masking EXCEPT !.again = applyMask(masking.extracted, masking.mask),
                                  !.stage = "remasked"]
    /\ UNCHANGED <<config, columns, arrayField, options, defaultValuesRef, composed, batching, timers, formValues, prevalidated, closure,
                   formState, submissions>>

MaskInit ==
    /\ InitHook({"address"}, OptionSets({"undefined"}, {0}, {"none"}), FALSE)
    /\ \E mask \in TextsUpTo(MaskChars, MaxMaskLen), raw \in TextsUpTo(RawChars, MaxRawLen) :
          masking = [NoMasking EXCEPT !.mask = mask, !.raw = raw, !.stage = "raw"]
    /\ arrayField = NoArrayField

MaskNext == MaskApplied \/ RawExtracted \/ MaskReapplied

MaskSpec == MaskInit /\ [][MaskNext]_vars

\* ------------------------------------------------------------------ properties
\* the fields that declare a condition which the current values do not satisfy
HiddenFields ==
    {id \in FieldIds : FieldConfig(id).hasCondition /\ ~ConditionShouldDisplay(id, formValues)}

\* C1: in every reachable state, formState.isValid is true if and only if
\* formState.errors has no entries.
C1_IsValidIffNoErrors == formState.isValid <=> (DOMAIN formState.errors = {})

\* C2: in every reachable state, formState.isDirty is true if and only if
\* formState.dirtyFields has at least one entry.
C2_IsDirtyIffDirtyFields == formState.isDirty <=> (DOMAIN formState.dirtyFields # {})

\* C9: in every reachable state, a field whose condition currently evaluates to
\* not-displayed has no entry in formState.errors.
C9_HiddenFieldHasNoError == \A id \in HiddenFields : id \notin DOMAIN formState.errors

\* C10: shouldDisplayField(id), as the current render computes it, is true for a
\* field without a condition and equals condition.shouldDisplay(current values)
\* for a field with one, whatever the construction options.
C10_ShouldDisplayIsCondition ==
    \A id \in FieldIds :
        shouldDisplayField(id, fieldConditions, closure.formValues)
            = (IF FieldConfig(id).hasCondition
               THEN ConditionShouldDisplay(id, formValues)
               ELSE TRUE)

\* the submit handler was invoked in this step
TriggerStep == Len(submissions') = Len(submissions) + 1

\* the record of the invocation a trigger step adds
Triggered == submissions'[Len(submissions')]

\* whether the field-level validation of section 4.5 rejects the value of id
FailsValidation(id, values) == ~validateSingleField(id, values[id], values, EmptyMap).isValid

\* the fields the values display, resp. hide, that fail validation
DisplayedInvalid(values) ==
    {id \in FieldIds :
        /\ FieldConfig(id).hasCondition => ConditionShouldDisplay(id, values)
        /\ FailsValidation(id, values)}
HiddenInvalid(values) ==
    {id \in FieldIds :
        /\ FieldConfig(id).hasCondition /\ ~ConditionShouldDisplay(id, values)
        /\ FailsValidation(id, values)}

\* the whole-form validator returns field errors for the values
FormValidatorRejects(values) ==
    LET result == FormLevelResult(values)
    IN  ~result.isNull /\ DOMAIN result.messages # {}

\* C3: under every construction-time mode, a submit trigger at which a displayed
\* field fails validation or the whole-form validator returns field errors ends
\* with isSubmitting=false and isSubmitted=true and never invokes the callback
\* (the invocation is rejected, and a rejected invocation never changes again).
C3_InvalidSubmitNeverInvokesCallback ==
    [][/\ (/\ TriggerStep
           /\ \/ DisplayedInvalid(closure.formValues) # {}
              \/ FormValidatorRejects(closure.formValues))
          => /\ Triggered.phase = "rejected"
             /\ ~formState'.isSubmitting
             /\ formState'.isSubmitted
       /\ \A i \in DOMAIN submissions :
             submissions[i].phase = "rejected" => submissions'[i] = submissions[i]]_vars

\* what an invocation of the submit handler leaves: isSubmitted, submitCount one
\* higher, and isSubmitting unless the invocation was rejected
TriggerMarksSubmission ==
    TriggerStep =>
        /\ formState'.isSubmitted
        /\ formState'.submitCount = formState.submitCount + 1
        /\ Triggered.phase # "rejected" => formState'.isSubmitting

\* C4 (as stated): every invocation of the submit handler sets isSubmitting and
\* isSubmitted and increments submitCount by exactly one, and no operation ever
\* decreases submitCount.
C4_SubmitCountNeverDecreases ==
    [][/\ TriggerMarksSubmission
       /\ formState'.submitCount >= formState.submitCount]_vars

\* C4 (amended): every invocation of the submit handler sets isSubmitted,
\* increments submitCount by exactly one and leaves isSubmitting set unless it
\* rejected the submission; submitCount decreases only when resetForm is called
\* without keepSubmitCount, which sets it to 0.
C4_SubmitCountResetOnlyByResetForm ==
    [][/\ TriggerMarksSubmission
       /\ formState'.submitCount < formState.submitCount
          => /\ formState'.submitCount = 0
             /\ \E o \in FormResetOptions : ~o.keepSubmitCount /\ ResetForm(o)]_vars

\* two invocations with a resetForm between them
C4_Witness == Len(submissions) = 2 /\ formState.submitCount = 1

\* C8: under every combination of construction options, a submit trigger with
\* exactly one invalid displayed field and one invalid field whose
\* condition.shouldDisplay(current values) is false leaves errors with exactly
\* one entry, the displayed field's.
C8_HiddenFieldSkippedOnSubmit ==
    [][(/\ TriggerStep
        /\ Cardinality(DisplayedInvalid(closure.formValues)) = 1
        /\ Cardinality(HiddenInvalid(closure.formValues)) = 1)
       => DOMAIN formState'.errors = DisplayedInvalid(closure.formValues)]_vars

\* an invocation whose timers and callback have still to run
InFlight(i) == submissions[i].phase \in {"delay", "awaiting", "catchDelay"}

\* C5: provided pending timers fire and the callback settles, every submit
\* trigger is eventually followed by a state with isSubmitting=false, also when
\* triggers overlap; and once no invocation is in flight isSubmitting is false.
C5_SubmittingEventuallyFalse ==
    /\ \A n \in 1..MaxSubmits : (Len(submissions) = n) ~> ~formState.isSubmitting
    /\ []((\A i \in DOMAIN submissions : ~InFlight(i)) => ~formState.isSubmitting)

\* two invocations overlap: both are in flight while isSubmitting is set
C5_Witness ==
    /\ Len(submissions) = 2
    /\ InFlight(1) /\ InFlight(2)
    /\ formState.isSubmitting

\* C6: with and without submitDebounce, the success updater is applied for an
\* invocation if and only if the callback was invoked and completed without
\* throwing or rejecting; a callback that threw or rejected ends with the failure
\* updater.
C6_SuccessIffCallbackCompleted ==
    \A i \in DOMAIN submissions :
        /\ submissions[i].reported = "success"
           => submissions[i].invoked /\ submissions[i].outcome = "ok"
        /\ (submissions[i].phase = "done" /\ submissions[i].outcome = "ok")
           => submissions[i].reported = "success"
        /\ (submissions[i].phase = "done" /\ submissions[i].outcome = "threw")
           => submissions[i].reported = "failure"

\* C7: when the callback throws or rejects, the promise of the handler that
\* handleSubmit returned rejects with that error.
C7_CallbackErrorReachesCaller ==
    \A i \in DOMAIN submissions :
        submissions[i].outcome = "threw" => submissions[i].promise = "rejected"

\* the message validateSingleField gives a required field left empty
RequiredMessage(name) ==
    OrElse(FieldConfig(name).message,
           IF FieldConfig(name).type = "select" THEN "Please select an option"
           ELSE "This field is required")

\* the required text and select fields the current values display
RequiredDisplayed ==
    {name \in FieldIds :
        /\ FieldConfig(name).required
        /\ FieldConfig(name).type \in {"text", "select"}
        /\ FieldConfig(name).hasCondition => ConditionShouldDisplay(name, formValues)}

\* C11: in every reachable state (also one where the field held a non-empty
\* value before), validating a displayed required text or select field that
\* was set to "" records the required message for it, and validating one that
\* was set to a non-empty value leaves no entry for it.
C11_RequiredErrorSetAndCleared ==
    \A name \in RequiredDisplayed :
        LET after == validateField(formState, closure, name, Undefined).errors
        IN  IF formValues[name] = Str("")
            THEN /\ name \in DOMAIN after
                 /\ after[name] = FieldError(RequiredMessage(name))
            ELSE name \notin DOMAIN after

\* C12: in every reachable state, setValue(id, v, options) stores v at id,
\* marks id dirty (and the form dirty) unless shouldDirty is false, marks id
\* touched exactly when shouldTouch is set, and leaves the value, dirty flag and
\* touched flag of every other field unchanged.
C12_SetValueFrame ==
    \A name \in FieldIds, o \in DocumentedSetValue :
        \A value \in ValueInputs(name) :
            LET values == SetValueValues(formValues, name, value, o)
                after == SetValueState(formState, closure, name, value, o)
            IN  /\ values[name] = value
                /\ DOMAIN values = DOMAIN formValues \cup {name}
                /\ \A other \in DOMAIN formValues \ {name} : values[other] = formValues[other]
                /\ IF o.shouldDirty
                   THEN /\ after.isDirty
                        /\ after.dirtyFields = Put(formState.dirtyFields, name, TRUE)
                   ELSE /\ after.isDirty = formState.isDirty
                        /\ after.dirtyFields = formState.dirtyFields
                /\ after.touchedFields =
                       IF o.shouldTouch THEN Put(formState.touchedFields, name, TRUE)
                       ELSE formState.touchedFields

\* a call that touched one field without marking it dirty, after a call that
\* marked the other dirty
C12_Witness ==
    /\ formValues["country"] = Str("uk")
    /\ DOMAIN formState.touchedFields = {"country"}
    /\ DOMAIN formState.dirtyFields = {"state"}
    /\ formValues["state"] = Str("ny")

\* the setValue calls that pass neither shouldValidate nor a mode of their own
AmbientSetValue == {o \in DocumentedSetValue : ~o.shouldValidate /\ o.mode = "undefined"}

\* C13: when the form is constructed with mode onChange or all, a setValue(id, v)
\* call without shouldValidate and without a per-call mode validates id, so that
\* errors[id] is present exactly when v fails validation; when it is constructed
\* with mode onSubmit the call leaves errors as it was.
C13_AmbientModeValidatesOnChange ==
    \A name \in FieldIds, o \in AmbientSetValue :
        \A value \in ValueInputs(name) :
            LET values == SetValueValues(formValues, name, value, o)
                after == SetValueState(formState, closure, name, value, o)
                displayed == FieldConfig(name).hasCondition => ConditionShouldDisplay(name, values)
            IN  /\ (options.mode \in {"onChange", "all"} /\ displayed)
                   => (name \in DOMAIN after.errors <=> FailsValidation(name, values))
                /\ options.mode = "onSubmit" => after.errors = formState.errors

\* the step in which the oldest pending re-validation of confirmPassword runs
RevalidationRuns == timers # <<>> /\ timers' = Tail(timers)

MismatchMessages == {"Passwords do not match", "Passwords must match"}

\* C14: the re-validation of confirmPassword that setValue('password', p2) sets
\* off compares the confirmPassword c held at the call with the new password p2:
\* once it has run, errors.confirmPassword is the mismatch error when c differs
\* from p2, and there is no confirmPassword error when c equals p2.
C14_RevalidationComparesNewPassword ==
    [][RevalidationRuns =>
          LET c == Head(timers).cl.formValues["confirmPassword"]
              p2 == Head(timers).password
          IN  IF c # p2
              THEN /\ "confirmPassword" \in DOMAIN formState'.errors
                   /\ formState'.errors["confirmPassword"].message \in MismatchMessages
              ELSE "confirmPassword" \notin DOMAIN formState'.errors]_vars

\* the fields that declare a transform
TransformFields == {id \in FieldIds : FieldConfig(id).transform # "none"}

\* C15: with field transformation enabled at construction, watch(id) and
\* getValues(id) of a field that declares transform.output are
\* transform.output(stored value), and so is the field's entry in the payload a
\* submit hands to the callback, whatever the other toggles are.
C15_OutputTransformApplied ==
    options.enableFieldTransformation =>
        \A id \in TransformFields :
            LET out == TransformOutput(FieldConfig(id).transform, closure.formValues[id])
            IN  /\ watch(closure, id) = out
                /\ getValues(closure, id) = out
                /\ submissionValues(closure.formValues)[id] = out

\* C16: for every raw text r and every mask m, masks with digit literals
\* included, applyMask(extractRaw(applyMask(r, m)), m) = applyMask(r, m).
C16_MaskRoundTrip ==
    masking.stage = "remasked" => masking.again = masking.display

\* a <= b ? a : b
Min(a, b) == IF a <= b THEN a ELSE b

\* C17: for a mask with k placeholders and any raw text, the digits extracted
\* from applyMask(raw, mask) number min(k, digits in raw).
C17_ExtractedLength ==
    masking.stage \in {"extracted", "remasked"} =>
        Len(masking.extracted) =
            Min(digitCount(masking.mask), Len(extractRaw(masking.raw)))

\* the phone field's masked display, and its error once validateField has run
PhoneDisplay == Join(maskedValues(formValues, "phone"))
PhoneErrors == validateField(formState, closure, "phone", Undefined).errors
PhoneFullyMasked ==
    formValues["phone"] = Str("1234567890") =>
        /\ PhoneDisplay = "(123) 456-7890"
        /\ "phone" \notin DOMAIN PhoneErrors
PhoneDigitCountFails ==
    /\ "phone" \in DOMAIN PhoneErrors
    /\ PhoneErrors["phone"].message \in {"Please enter a valid phone number", "Must be 10 digits"}

\* C18 as stated: the phone field (mask (###) ###-####) shows "(123) 456-7890"
\* for raw 1234567890 and passes validation; for raw 123 it shows "(123) ",
\* closing parenthesis and space included, and fails the digit-count check.
C18_PhoneMaskClosesGroup ==
    /\ PhoneFullyMasked
    /\ formValues["phone"] = Str("123") =>
           PhoneDisplay = "(123) " /\ PhoneDigitCountFails

\* C18, amended: for raw 123 the display is "(123": applyMask stops as soon as
\* the digits are used up, before the literals that follow; validation fails
\* the digit-count check with the field's configured message.
C18_PhoneMaskStopsAtLastDigit ==
    /\ PhoneFullyMasked
    /\ formValues["phone"] = Str("123") =>
           /\ PhoneDisplay = "(123"
           /\ PhoneDigitCountFails
           /\ PhoneErrors["phone"].message = "Please enter a valid phone number"

C18_Witness ==
    /\ formValues["phone"] = Str("123")
    /\ "phone" \in DOMAIN formState.errors
    /\ PhoneDisplay = "(123"

\* xs without its last element
Front(xs) == SubSeq(xs, 1, Len(xs) - 1)

\* append(v) called on a rendered hook whose list is L leaves L with v at the end
AppendExtends(id) ==
    \A v \in Items :
        Rendered /\ ArrayAppend(id, v) =>
            formValues'[id].items = Append(formValues[id].items, v)

\* the list is L with an appended value, and the hook has either re-rendered
\* since the append or still holds L; remove(length of L) then leaves L
RemoveRestores(id) ==
    LET now == formValues[id].items
        L == Front(now)
    IN  (/\ Len(now) > 0
         /\ \/ Rendered /\ CurrentValues(id) = now
            \/ ~Rendered /\ CurrentValues(id) = L
         /\ ArrayRemove(id, Len(L)))
        => formValues'[id].items = L

\* C19: on every list field, append(v) followed by remove(length of L), where L
\* is the list before the append, leaves the list equal to L, whether or not
\* the hook re-rendered between the two calls.
C19_AppendThenRemoveRestores ==
    [][\A id \in ArrayFieldIds : AppendExtends(id) /\ RemoveRestores(id)]_vars

\* two calls made in one turn have left the list as the render before them saw it
C19_Witness ==
    /\ ~Rendered
    /\ "skills" \in DOMAIN formState.dirtyFields
    /\ Len(formValues["skills"].items) > 0
    /\ formValues["skills"] = closure.formValues["skills"]

\* ys holds the elements of xs, each as often
IsPermutation(xs, ys) ==
    /\ Len(xs) = Len(ys)
    /\ \A x \in ListItems \cup Items :
          Cardinality({i \in 1..Len(xs) : xs[i] = x}) =
          Cardinality({i \in 1..Len(ys) : ys[i] = x})

\* C20: move(from, to) with both indices in range takes the element at from out
\* and puts it at index to of the shortened list: move(0, 2) on [a,b,c,d] gives
\* [b,c,a,d], and the result is a permutation of the list.
C20_MoveReinsertsAtTo ==
    [][\A id \in ArrayFieldIds :
          \A from \in 0..(Len(CurrentValues(id)) - 1), to \in 0..(Len(CurrentValues(id)) - 1) :
              ArrayMove(id, from, to) =>
                  LET xs == CurrentValues(id)
                      ys == formValues'[id].items
                  IN  /\ ys[to + 1] = xs[from + 1]
                      /\ RemoveAt(ys, to) = RemoveAt(xs, from)
                      /\ IsPermutation(xs, ys)
                      /\ (xs = <<"a", "b", "c", "d">> /\ from = 0 /\ to = 2)
                             => ys = <<"b", "c", "a", "d">>]_vars

\* move(0, 2) has been called on [a,b,c,d]
C20_Witness ==
    /\ formValues["skills"].items = <<"b", "c", "a", "d">>
    /\ closure.formValues["skills"].items = <<"a", "b", "c", "d">>

\* ------------------------------------------------------------------ C21
\* the form after a list operation wrote newValues to the field id: the list is
\* stored whole, the field and the form are dirty, and the field's error is the
\* outcome of validating newValues
ListWritten(id, newValues) ==
    LET result == validateSingleField(id, List(newValues), closure.formValues, EmptyMap)
    IN  /\ formValues'[id] = List(newValues)
        /\ formState'.isDirty
        /\ id \in DOMAIN formState'.dirtyFields
        /\ formState'.dirtyFields[id]
        /\ IF result.isValid
           THEN id \notin DOMAIN formState'.errors
           ELSE /\ id \in DOMAIN formState'.errors
                /\ formState'.errors[id].message = result.error

OverMaximum(id, xs) ==
    FieldConfig(id).maxItems # 0 /\ NonEmptyCount(xs) > FieldConfig(id).maxItems

\* C21: every list operation (append, prepend, insert, remove, swap, move)
\* writes the list it computed, whatever minItems and maxItems say, marks the
\* field and the form dirty, and leaves errors[id] equal to the validation
\* outcome of that list; a list longer than maxItems is stored together with
\* the maximum-items error.
C21_ListOperationWritesAndValidates ==
    [][\A id \in ArrayFieldIds :
        LET xs == CurrentValues(id)
        IN  /\ \A value \in Items :
                /\ ArrayAppend(id, value) => ListWritten(id, Append(xs, value))
                /\ ArrayPrepend(id, value) => ListWritten(id, <<value>> \o xs)
                /\ \A index \in 0..Len(xs) :
                      ArrayInsert(id, index, value)
                          => ListWritten(id, InsertAt(xs, index, value))
            /\ \A index \in 0..MaxListLen :
                  ArrayRemove(id, index) => ListWritten(id, RemoveAt(xs, index))
            /\ \A a, b \in 0..(Len(xs) - 1) :
                /\ ArraySwap(id, a, b) => ListWritten(id, SwapAt(xs, a, b))
                /\ ArrayMove(id, a, b) => ListWritten(id, MoveAt(xs, a, b))
            /\ (\E value \in Items : ArrayAppend(id, value) /\ OverMaximum(id, Append(xs, value)))
                  => /\ Len(formValues'[id].items) = Len(xs) + 1
                     /\ formState'.errors[id].message
                            = "Maximum " \o ToString(FieldConfig(id).maxItems) \o " items allowed"]_vars

\* after an append to a list that already held maxItems items: the longer list
\* is stored, the field is dirty and carries the maximum-items error
C21_Witness ==
    /\ config = "skillset"
    /\ ~batching
    /\ formValues["skills"].items = <<"a", "js">>
    /\ Len(formValues["skills"].items) > FieldConfig("skills").maxItems
    /\ "skills" \in DOMAIN formState.dirtyFields
    /\ formState.isDirty
    /\ "skills" \in DOMAIN formState.errors
    /\ formState.errors["skills"].message = "Maximum 1 items allowed"

\* ------------------------------------------------------------------ C22
\* resetForm() called with no options
NoResetOptions ==
    [keepErrors |-> FALSE, keepDirty |-> FALSE, keepValues |-> FALSE,
     keepIsSubmitted |-> FALSE, keepTouched |-> FALSE,
     keepIsValid |-> FALSE, keepSubmitCount |-> FALSE]

\* C22: whatever setValue and the list operations wrote, resetForm() with no
\* options makes the value map equal, key for key and element for element, to
\* the values captured at construction; no step changes the captured values,
\* and a second resetForm() would change nothing.
C22_ResetFormRestoresDefaults ==
    [][LET captured == defaultValuesRef
       IN  /\ defaultValuesRef' = captured
           /\ ResetForm(NoResetOptions)
                 => /\ formValues' = captured.formValues
                    /\ prevalidated' = captured.prevalidated
                    /\ ResetFormState(formState', NoResetOptions) = formState']_vars

\* resetForm() has just run on a form whose country had been set and whose
\* skills list had been extended: the values are the first ones again
C22_Witness ==
    /\ ~Rendered
    /\ closure.formValues["country"] = Str("uk")
    /\ closure.formValues["skills"] = List(<<"js">>)
    /\ formValues = defaultValuesRef.formValues
    /\ prevalidated = defaultValuesRef.prevalidated
    /\ formValues["country"] = Str("")
    /\ formValues["skills"] = List(<<>>)
    /\ ~formState.isDirty
    /\ formState.dirtyFields = EmptyMap

Entry(m, k) == IF k \in DOMAIN m THEN <<m[k]>> ELSE <<>>

\* resetField(name, o) takes the values `values` and the form state `prev` to
\* `newValues` and `next`: the field's own value and entries follow the
\* options, those of every other field stay
FieldResetOnly(values, prev, newValues, next, name, o) ==
    /\ newValues[name] = IF o.keepValue THEN values[name] ELSE defaultValuesRef.formValues[name]
    /\ Entry(next.errors, name) = IF o.keepError THEN Entry(prev.errors, name) ELSE <<>>
    /\ Entry(next.dirtyFields, name)
          = IF o.keepDirty THEN Entry(prev.dirtyFields, name) ELSE <<>>
    /\ Entry(next.touchedFields, name)
          = IF o.keepTouched THEN Entry(prev.touchedFields, name) ELSE <<>>
    /\ DOMAIN newValues = DOMAIN values \cup {name}
    /\ \A other \in (DOMAIN values \cup FieldIds) \ {name} :
          /\ Entry(newValues, other) = Entry(values, other)
          /\ Entry(next.errors, other) = Entry(prev.errors, other)
          /\ Entry(next.dirtyFields, other) = Entry(prev.dirtyFields, other)
          /\ Entry(next.touchedFields, other) = Entry(prev.touchedFields, other)

\* C24: resetField(id, options) gives id its default value unless keepValue,
\* removes errors[id] unless keepError, dirtyFields[id] unless keepDirty and
\* touchedFields[id] unless keepTouched, and leaves the value, error, dirty flag
\* and touched flag of every other field as they were.
C24_ResetFieldFrame ==
    \A name \in FieldIds, o \in FieldResetOptions :
        FieldResetOnly(formValues, formState,
                       ResetFieldValues(formValues, name, o),
                       ResetFieldState(formState, name, o), name, o)

\* country was set and then reset keeping only its touched flag, while state
\* keeps its value and flags and skills its error
C24_Witness ==
    /\ config = "profile"
    /\ formValues["country"] = defaultValuesRef.formValues["country"]
    /\ "country" \in DOMAIN formState.touchedFields
    /\ "country" \notin DOMAIN formState.dirtyFields
    /\ formValues["state"] = Str("ny")
    /\ "state" \in DOMAIN formState.dirtyFields
    /\ "state" \in DOMAIN formState.touchedFields
    /\ "skills" \in DOMAIN formState.errors

\* ------------------------------------------------------------------ C25
\* m is the key-wise union of a and b, with b's entry on every key both hold
UnionPreferring(m, a, b) ==
    /\ DOMAIN m = (DOMAIN a) \cup (DOMAIN b)
    /\ \A k \in DOMAIN m : m[k] = IF k \in DOMAIN b THEN b[k] ELSE a[k]

\* C25: composeWith(other) returns an instance whose values, errors,
\* dirtyFields and touchedFields are the key-wise union of the maps of the two
\* forms, other's entry taken on every key both hold, and the call changes the
\* state of the form it is called on and nothing of the other form.
C25_ComposeWithMergesOtherLast ==
    [][\A otherForm \in OtherForms :
          ComposeWith(otherForm)
              => /\ UnionPreferring(composed'.raw, formValues, otherForm.raw)
                 /\ composed'.prevalidated = prevalidated \cup otherForm.prevalidated
                 /\ UnionPreferring(composed'.formState.errors,
                                    formState.errors, otherForm.formState.errors)
                 /\ UnionPreferring(composed'.formState.dirtyFields,
                                    formState.dirtyFields, otherForm.formState.dirtyFields)
                 /\ UnionPreferring(composed'.formState.touchedFields,
                                    formState.touchedFields, otherForm.formState.touchedFields)
                 /\ formValues' = formValues
                 /\ prevalidated' = prevalidated
                 /\ formState' = formState
                 /\ defaultValuesRef' = defaultValuesRef]_vars

\* a form whose country is us and whose state carries no error, composed with
\* the edited address form: the composition has the other form's country and
\* its error on state
C25_Witness ==
    /\ composed.made
    /\ formValues["country"] = Str("us")
    /\ composed.raw["country"] = Str("uk")
    /\ "country" \in DOMAIN formState.dirtyFields
    /\ "state" \notin DOMAIN formState.errors
    /\ "state" \in DOMAIN composed.formState.errors
    /\ "state" \in DOMAIN formState.dirtyFields
    /\ "state" \in DOMAIN composed.formState.dirtyFields

\* ------------------------------------------------------------------ C26
\* two columns declare the same id
DuplicateIds == \E i, j \in 1..Len(Columns) : i # j /\ Columns[i].id = Columns[j].id

\* an array field whose template is not a text field
NonTextTemplate ==
    \E i \in 1..Len(Columns) : Columns[i].type = "array" /\ Columns[i].template # "text"

\* C26: a configuration with two fields of the same id, or with an array field
\* whose template is not a text field, is refused when the form is constructed:
\* no operation ever runs on a form made from it.
C26_MalformedConfigNeverOperates ==
    [][~(DuplicateIds \/ NonTextTemplate)]_vars

\* ------------------------------------------------------------------ C27
\* Object.keys of a value map: its own keys and one __prevalidated_<id> key for
\* every id marked
ValueKeys(values, marks) ==
    (DOMAIN values) \cup {"__prevalidated_" \o id : id \in marks}

\* C27: every key of the value map, and so of what getValues() and the submit
\* callback are given, is the id of a field of the configuration and holds a
\* string or a list; no bookkeeping key such as __prevalidated_<id> is in it.
C27_ValueKeysAreFieldIds ==
    /\ ValueKeys(formValues, prevalidated) \subseteq FieldIds
    /\ ValueKeys(closure.formValues, closure.prevalidated) \subseteq FieldIds
    /\ \A k \in DOMAIN formValues : formValues[k].kind \in {"string", "list"}

\* ------------------------------------------------------------------ C28
\* the five checks of a text field in their order, each with whether it fails
\* for value (the other values being values) and the message it reports
TextSteps(id, value, values) ==
    LET field == FieldConfig(id)
        digits == Len(extractRaw(Chars(StringOf(value))))
        predicate == CustomValidator(field.custom, value, values)
    IN  <<[fails |-> field.required /\ IsEmptyValue(value),
           message |-> IF field.message # "" THEN field.message
                       ELSE "This field is required"],
          [fails |-> field.mask # <<>> /\ digits > 0 /\ digits # digitCount(field.mask),
           message |-> IF field.message # "" THEN field.message
                       ELSE "Must be " \o ToString(digitCount(field.mask)) \o " digits"],
          [fails |-> /\ field.mask = <<>>
                     /\ field.pattern # "none"
                     /\ ~IsEmptyValue(value)
                     /\ ~PatternTest(field.pattern, StringOf(value)),
           message |-> IF field.message # "" THEN field.message ELSE "Invalid format"],
          [fails |-> id = "confirmPassword" /\ values["password"] # value,
           message |-> "Passwords do not match"],
          [fails |-> field.custom # "none" /\ ~predicate.ok,
           message |-> predicate.message]>>

\* the outcome that stops at the first failing step
FirstFailing(steps) ==
    IF \E i \in 1..Len(steps) : steps[i].fails
    THEN LET first == CHOOSE i \in 1..Len(steps) :
                          steps[i].fails /\ \A j \in 1..(i - 1) : ~steps[j].fails
         IN  Invalid(steps[first].message)
    ELSE Valid

TextFieldIds == {id \in FieldIds : FieldConfig(id).type = "text"}

\* C28: a text field is validated in the order required, masked digit count,
\* pattern (only without a mask), confirmPassword equals password, custom
\* predicate; the outcome is the failure of the first step that fails, with that
\* step's message, and success when none fails.
C28_TextValidationOrder ==
    \A id \in TextFieldIds : \A value \in ValueInputs(id) :
        validateSingleField(id, value, formValues, EmptyMap)
            = FirstFailing(TextSteps(id, value, formValues))

\* confirmPassword holds a text that differs from the password: the password
\* rule and the custom predicate both fail, and the error is the password rule's
C28_Witness ==
    /\ config = "account"
    /\ ~IsEmptyValue(formValues["confirmPassword"])
    /\ formValues["confirmPassword"] # formValues["password"]
    /\ ~CustomValidator("matchesPassword", formValues["confirmPassword"], formValues).ok
    /\ "confirmPassword" \in DOMAIN formState.errors
    /\ formState.errors["confirmPassword"].message = "Passwords do not match"

\* ------------------------------------------------------------------ C29
\* the lists of items and blank items a list field may be validated with
EntryLists == UNION {[1..k -> ListEntries] : k \in 0..MaxLen}

\* C29: a required array or chip field, whether or not it declares minItems,
\* fails validation with the required message on a list that holds nothing but
\* blank entries.
C29_RequiredListMustHaveItems ==
    \A id \in ArrayFieldIds : \A xs \in EntryLists :
        (FieldConfig(id).required /\ NonEmptyCount(xs) = 0)
            => validateSingleField(id, List(xs), formValues, EmptyMap)
                   = Invalid(RequiredMessage(id))

\* ------------------------------------------------------------------ C30
\* C30: a list field with n items that are not blank fails with the minimum
\* message when it declares minItems and n < minItems, fails with the maximum
\* message when it declares maxItems and n > maxItems, and is valid otherwise,
\* whatever pattern or custom predicate it declares; a bound it does not
\* declare does not bind.
C30_ListBounds ==
    \A id \in ArrayFieldIds : \A xs \in EntryLists :
        LET field == FieldConfig(id)
            n == Cardinality({i \in 1..Len(xs) : xs[i] # ""})
        IN  validateSingleField(id, List(xs), formValues, EmptyMap)
                = IF field.minItems # 0 /\ n < field.minItems
                  THEN Invalid("Minimum " \o ToString(field.minItems) \o " items required")
                  ELSE IF field.maxItems # 0 /\ n > field.maxItems
                  THEN Invalid("Maximum " \o ToString(field.maxItems) \o " items allowed")
                  ELSE Valid

\* emails holds one blank entry and carries the minimum error, addresses holds
\* two items and carries the maximum error, and tags, which declares no bound,
\* was written and carries none
C30_Witness ==
    /\ config = "lists"
    /\ formValues["emails"].items = <<"">>
    /\ "emails" \in DOMAIN formState.errors
    /\ formState.errors["emails"].message = "Minimum 1 items required"
    /\ formValues["addresses"].items = <<"js", "js">>
    /\ "addresses" \in DOMAIN formState.errors
    /\ formState.errors["addresses"].message = "Maximum 1 items allowed"
    /\ formValues["tags"].items = <<"js", "js">>
    /\ "tags" \in DOMAIN formState.dirtyFields
    /\ "tags" \notin DOMAIN formState.errors

\* ------------------------------------------------------------------ C31
\* the text fields that declare a mask, and the texts they are validated with:
\* no digit at all, too few digits, as many digits as the mask has placeholders
MaskedFieldIds == {id \in TextFieldIds : FieldConfig(id).mask # <<>>}
MaskedTexts == {Str(""), Str("ny"), Str("123"), Str("1234567890")}

\* C31: for a text field whose mask has k placeholders, a value with d > 0
\* digits and d # k fails with the digit-count message, a value without digits
\* passes the step (it fails only when it is empty and the field is required),
\* and the declared pattern is not evaluated: a value with k digits that the
\* pattern rejects is valid.
C31_MaskedDigitCount ==
    \A id \in MaskedFieldIds : \A value \in MaskedTexts :
        LET field == FieldConfig(id)
            cs == Chars(StringOf(value))
            d == Cardinality({i \in 1..Len(cs) : cs[i] \in Digits})
            k == Cardinality({i \in 1..Len(field.mask) : field.mask[i] = "#"})
            result == validateSingleField(id, value, formValues, EmptyMap)
        IN  /\ (d > 0 /\ d # k)
                => result = Invalid(IF field.message # "" THEN field.message
                                    ELSE "Must be " \o ToString(k) \o " digits")
            /\ (d = 0 /\ ~(field.required /\ IsEmptyValue(value))) => result = Valid
            /\ (d = 0 /\ field.required /\ IsEmptyValue(value)) => result = Invalid(RequiredMessage(id))
            /\ d = k => result = Valid
            /\ (d = k /\ field.pattern # "none") => ~PatternTest(field.pattern, StringOf(value))

\* the phone was set to three digits with validation and carries the error of
\* the digit count
C31_Witness ==
    /\ config = "contact"
    /\ formValues["phone"] = Str("123")
    /\ "phone" \in DOMAIN formState.dirtyFields
    /\ "phone" \in DOMAIN formState.errors
    /\ formState.errors["phone"].message = "Please enter a valid phone number"
    /\ digitCount(FieldConfig("phone").mask) = 10

\* ------------------------------------------------------------------ C32
CustomFieldIds ==
    {id \in FieldIds : FieldConfig(id).type \in {"text", "select"} /\ FieldConfig(id).custom # "none"}

\* the steps before the custom predicate all pass for value
EarlierStepsPass(id, value, values) ==
    IF FieldConfig(id).type = "select"
    THEN ~(FieldConfig(id).required /\ IsEmptyValue(value))
    ELSE \A i \in 1..4 : ~TextSteps(id, value, values)[i].fails

\* C32: for a text or select field with a custom predicate whose earlier steps
\* pass, validateField(id, v) leaves no error exactly when the predicate accepts
\* v with the current values, and otherwise leaves errors[id] with the message
\* the predicate returned; a select that holds a non-empty value is included.
C32_CustomPredicateDecides ==
    \A id \in CustomFieldIds : \A value \in ValueInputs(id) :
        LET predicate == CustomValidator(FieldConfig(id).custom, value, formValues)
            next == validateField(formState, closure, id, value)
        IN  EarlierStepsPass(id, value, formValues) =>
                IF predicate.ok
                THEN id \notin DOMAIN next.errors
                ELSE /\ id \in DOMAIN next.errors
                     /\ next.errors[id] = FieldError(predicate.message)

\* ------------------------------------------------------------------ C33
\* C33: a validateField(id) call sets validatingFields[id] (and isValidating)
\* true before the check and false after it, so both are false once the call
\* has completed; errors[id] is then present, of type validation and with the
\* failing message, exactly when the check failed, and the errors of every
\* other field are what they were.
C33_ValidateFieldFrame ==
    \A id \in FieldIds : \A value \in {Undefined} \cup ValueInputs(id) :
        LET started == StartValidating(formState, id)
            next == validateField(formState, closure, id, value)
            result == validateFieldReturns(closure, id, value)
        IN  /\ started.isValidating /\ started.validatingFields[id]
            /\ started.errors = formState.errors
            /\ ~next.isValidating
            /\ id \in DOMAIN next.validatingFields /\ ~next.validatingFields[id]
            /\ (id \in DOMAIN next.errors) <=> ~result.isValid
            /\ ~result.isValid =>
                  next.errors[id] = [type |-> "validation", message |-> result.error]
            /\ \A other \in FieldIds \ {id} :
                  /\ (other \in DOMAIN next.errors) <=> (other \in DOMAIN formState.errors)
                  /\ other \in DOMAIN formState.errors =>
                        next.errors[other] = formState.errors[other]

\* confirmPassword was validated and failed while the password stayed valid:
\* its flag is back to false and only its error is there
C33_Witness ==
    /\ config = "account"
    /\ "confirmPassword" \in DOMAIN formState.validatingFields
    /\ ~formState.validatingFields["confirmPassword"]
    /\ ~formState.isValidating
    /\ DOMAIN formState.errors = {"confirmPassword"}
    /\ formState.errors["confirmPassword"].message = "Passwords do not match"
    /\ "password" \in DOMAIN formState.validatingFields

\* ------------------------------------------------------------------ C34
\* the setValue calls that validate and ask for the dependents to be re-validated
RevalidatingSetValue ==
    {o \in EditSetValue :
        o.shouldValidate /\ o.mode # "none" /\ o.enableAutomaticDependencyRevalidation}

\* the fields that declared id in validation.deps or in condition.dependsOn
DependentsOf(id) ==
    {f \in FieldIds :
        \/ \E j \in 1..Len(FieldConfig(f).deps) : FieldConfig(f).deps[j] = id
        \/ \E j \in 1..Len(FieldConfig(f).dependsOn) : FieldConfig(f).dependsOn[j] = id}

\* the outcome of validating field f, displayed or hidden, against values
OutcomeAgainst(f, values) ==
    IF FieldConfig(f).hasCondition /\ ~ConditionShouldDisplay(f, values)
    THEN Valid
    ELSE validateSingleField(f, values[f], values, EmptyMap)

StaleRevalidationRuns ==
    /\ timers # <<>>
    /\ timers' = Tail(timers)
    /\ Head(timers).cl.formValues["confirmPassword"] # formValues["confirmPassword"]

\* C35: latest call wins per field: the timer-deferred re-validation that a
\* password change scheduled is discarded when the value it was scheduled with
\* differs from the field's current value at the time it resolves, so a result
\* computed from an older value is never written into errors[id] over the
\* validation of a newer value.
C35_LatestCallWins ==
    [][StaleRevalidationRuns => formState'.errors = formState.errors]_vars

\* ------------------------------------------------------------------ C36
\* C36: each list mutation is a read-modify-write on the current store: an
\* append issued right after another mutation of the same list, in the same
\* event-loop turn, writes the list the store held plus the item, and a remove
\* writes the list the store held without the item at the index, so that two
\* back-to-back mutations leave the list both produce in order and no update
\* is lost.
C36_NoLostListUpdate ==
    [][\A id \in ArrayFieldIds :
          /\ \A value \in Items :
                ArrayAppend(id, value) =>
                    formValues'[id] = List(Append(formValues[id].items, value))
          /\ \A index \in 0..MaxListLen :
                ArrayRemove(id, index) =>
                    formValues'[id] = List(RemoveAt(formValues[id].items, index))]_vars

\* ------------------------------------------------------------------ C37
\* the step in which the debounce timer of trigger i fires and the caller's
\* callback is invoked with that trigger's payload
CallbackInvokedFor(i) ==
    /\ i \in DOMAIN submissions
    /\ submissions[i].phase = "debounce"
    /\ ~submissions[i].invoked
    /\ submissions'[i].invoked

\* a later valid trigger whose submission reached the debounced function while
\* the debounce timer of trigger i was still pending: it came within the quiet
\* period of i
LaterTriggerInBurst(i) ==
    \E j \in DOMAIN submissions :
        /\ j > i
        /\ submissions[j].phase \in {"debounce", "done"}
        /\ submissions[j].reported = "success"

\* C37: with submitDebounce > 0 a burst of valid submit triggers, each within
\* the debounce period of the previous one, invokes the caller's callback once,
\* with the payload of the last trigger: the callback is never invoked for a
\* trigger that a later trigger of the burst has followed, also when the form
\* re-rendered between the triggers.
C37_BurstInvokesCallbackOnce ==
    [][\A i \in 1..MaxSubmits :
          (options.submitDebounce > 0 /\ CallbackInvokedFor(i)) => ~LaterTriggerInBurst(i)]_vars

\* ------------------------------------------------------------------ C38
\* a step that is no submit trigger: no submission is added
NoSubmitTrigger == Len(submissions') = Len(submissions)

\* C38: after resetForm() without keepIsSubmitted, isSubmitted and
\* isSubmitSuccessful stay false until the next submit trigger: once both are
\* false, no step other than a submit trigger sets either, the completion of a
\* submission that was started before the reset included.
C38_ResetOutlastsPendingSubmission ==
    [][(/\ ~formState.isSubmitted
        /\ ~formState.isSubmitSuccessful
        /\ NoSubmitTrigger)
       => (~formState'.isSubmitted /\ ~formState'.isSubmitSuccessful)]_vars

\* ------------------------------------------------------------------ C39
\* C39: in the array field component one Add lengthens the stored list by
\* exactly one item and one Remove shortens it by exactly the item at the
\* clicked index; Add never takes a list that is within maxItems beyond
\* maxItems, and Remove never takes one that holds minItems below minItems.
C39_AddAndRemoveByOne ==
    [][/\ addItem =>
            /\ Len(arrayField'.value) = Len(arrayField.value) + 1
            /\ (arrayField.maxItems # 0 /\ Len(arrayField.value) <= arrayField.maxItems)
                  => Len(arrayField'.value) <= arrayField.maxItems
       /\ \A index \in 0..MaxItems :
            removeItem(index) =>
                /\ arrayField'.value = RemoveAt(arrayField.value, index)
                /\ Len(arrayField.value) >= arrayField.minItems
                      => Len(arrayField'.value) >= arrayField.minItems]_vars

====
